---- MODULE Spec2Model ----
(***************************************************************************)
(* Model of the Ectoplasm swap front-end (CasperService).                  *)
(*                                                                         *)
(* The swap-quote functions getAmountOut / getAmountIn work on JavaScript  *)
(* BigInt values.  A BigInt is unbounded, so it is modelled here as a sign *)
(* and a magnitude, the magnitude being a little-endian sequence of limbs  *)
(* in radix Radix, with no leading (most significant) zero limb.           *)
(***************************************************************************)
EXTENDS Integers, Sequences, FiniteSets, TLC

----------------------------------------------------------------------------
(* Bounds of the model *)

\* reserves of the small pools run over -1 .. MaxReserve
MaxReserve == 9
\* amounts offered to the quote functions run over -1 .. MaxAmount
MaxAmount == 10
\* the scenario pool is quoted for amounts 1000 - ScenarioSpread .. 1000 + ScenarioSpread
ScenarioSpread == 3

----------------------------------------------------------------------------
(* BigInt: magnitudes *)

Radix == 10000

\* the limbs of a natural number, least significant first
RECURSIVE Limbs(_)
Limbs(n) == IF n = 0 THEN <<>> ELSE <<n % Radix>> \o Limbs(n \div Radix)

\* the natural number a limb sequence stands for
RECURSIVE LimbsValue(_)
LimbsValue(s) == IF s = <<>> THEN 0 ELSE Head(s) + Radix * LimbsValue(Tail(s))

\* limb d below the limbs s, keeping the magnitude free of leading zeros
Cons(d, s) == IF d = 0 /\ s = <<>> THEN <<>> ELSE <<d>> \o s

LimbAt(s) == IF s = <<>> THEN 0 ELSE Head(s)
Higher(s) == IF s = <<>> THEN <<>> ELSE Tail(s)

\* -1, 0 or 1 as a < b, a = b, a > b
MagCmp(a, b) ==
  IF Len(a) # Len(b) THEN (IF Len(a) < Len(b) THEN -1 ELSE 1)
  ELSE IF a = b THEN 0
  ELSE LET i == CHOOSE i \in DOMAIN a :
                  a[i] # b[i] /\ \A j \in (i + 1)..Len(a) : a[j] = b[j]
       IN IF a[i] < b[i] THEN -1 ELSE 1

RECURSIVE MagAdd(_, _, _)
MagAdd(a, b, carry) ==
  IF a = <<>> /\ b = <<>> THEN Limbs(carry)
  ELSE LET s == LimbAt(a) + LimbAt(b) + carry
       IN <<s % Radix>> \o MagAdd(Higher(a), Higher(b), s \div Radix)

\* a - b - borrow, for a >= b + borrow
RECURSIVE MagSub(_, _, _)
MagSub(a, b, borrow) ==
  IF a = <<>> THEN <<>>
  ELSE LET d == Head(a) - LimbAt(b) - borrow
       IN Cons(IF d < 0 THEN d + Radix ELSE d,
               MagSub(Tail(a), Higher(b), IF d < 0 THEN 1 ELSE 0))

\* a * k + carry, for one limb k
RECURSIVE MagMulLimb(_, _, _)
MagMulLimb(a, k, carry) ==
  IF a = <<>> THEN Limbs(carry)
  ELSE LET p == Head(a) * k + carry
       IN Cons(p % Radix, MagMulLimb(Tail(a), k, p \div Radix))

\* a * limb + Radix * hi
MulStep(hi, a, limb) ==
  IF hi = <<>> /\ limb = 0 THEN <<>>
  ELSE MagAdd(MagMulLimb(a, limb, 0), Cons(0, hi), 0)

RECURSIVE MagMul(_, _)
MagMul(a, b) ==
  IF b = <<>> THEN <<>> ELSE MulStep(MagMul(a, Tail(b)), a, Head(b))

\* the largest limb k in lo .. hi with d * k <= rem
RECURSIVE QuotientLimb(_, _, _, _)
QuotientLimb(rem, d, lo, hi) ==
  IF lo = hi THEN lo
  ELSE LET mid == (lo + hi + 1) \div 2
       IN IF MagCmp(MagMulLimb(d, mid, 0), rem) <= 0
          THEN QuotientLimb(rem, d, mid, hi)
          ELSE QuotientLimb(rem, d, lo, mid - 1)

\* the limb of the quotient for the running remainder rem, searched between
\* the bounds the leading limbs of rem and d give
NextQuotientLimb(rem, d) ==
  IF Len(rem) <= 2 /\ Len(d) <= 2 THEN LimbsValue(rem) \div LimbsValue(d)
  ELSE IF Len(rem) < Len(d) THEN 0
  ELSE LET top == LimbsValue(SubSeq(rem, Len(d), Len(rem)))
           lead == d[Len(d)]
           most == (top + 1) \div lead
       IN QuotientLimb(rem, d, top \div (lead + 1),
                       IF most < Radix THEN most ELSE Radix - 1)

\* limb k of the quotient below its higher limbs q, and what is left of rem
Divided(rem, d, k, q) ==
  [q |-> Cons(k, q), r |-> MagSub(rem, MagMulLimb(d, k, 0), 0)]

\* one step of the long division: the division hi of the higher limbs taken
\* one limb further down
DivModStep(hi, limb, d) ==
  IF hi.r = <<>> /\ limb = 0 THEN [q |-> Cons(0, hi.q), r |-> <<>>]
  ELSE LET rem == Cons(limb, hi.r)
       IN Divided(rem, d, NextQuotientLimb(rem, d), hi.q)

\* long division n = q * d + r with 0 <= r < d, for d # 0
RECURSIVE LongDivision(_, _)
LongDivision(n, d) ==
  IF n = <<>> THEN [q |-> <<>>, r |-> <<>>]
  ELSE DivModStep(LongDivision(Tail(n), d), Head(n), d)

\* the factor that brings the leading limb of d to Radix / 2 or more, where
\* the leading limbs of rem and d bound a quotient limb to within three
Normalizer(d) == Radix \div (d[Len(d)] + 1)

\* the division s of f * n by f * d as the division of n by d
Unscaled(s, f) == [q |-> s.q, r |-> LongDivision(s.r, <<f>>).q]

\* n = q * d + r with 0 <= r < d, for d # 0
MagDivMod(n, d) ==
  IF Normalizer(d) = 1 THEN LongDivision(n, d)
  ELSE Unscaled(LongDivision(MagMulLimb(n, Normalizer(d), 0),
                             MagMulLimb(d, Normalizer(d), 0)), Normalizer(d))

----------------------------------------------------------------------------
(* BigInt: signed values and the operators the quote functions use *)

Signed(neg, mag) == [neg |-> neg /\ mag # <<>>, mag |-> mag]

\* BigInt(n) of a Number n
BigInt(n) == Signed(n < 0, Limbs(IF n < 0 THEN -n ELSE n))

\* Number(b) of a BigInt b
Number(b) == IF b.neg THEN -LimbsValue(b.mag) ELSE LimbsValue(b.mag)

\* a + b
BigIntAdd(a, b) ==
  IF a.neg = b.neg THEN Signed(a.neg, MagAdd(a.mag, b.mag, 0))
  ELSE IF MagCmp(a.mag, b.mag) >= 0 THEN Signed(a.neg, MagSub(a.mag, b.mag, 0))
  ELSE Signed(b.neg, MagSub(b.mag, a.mag, 0))

\* a - b
BigIntSub(a, b) == BigIntAdd(a, Signed(~b.neg, b.mag))

\* a * b
BigIntMul(a, b) == Signed(a.neg # b.neg, MagMul(a.mag, b.mag))

\* a <= b
BigIntLe(a, b) ==
  IF a.neg # b.neg THEN a.neg
  ELSE IF a.neg THEN MagCmp(a.mag, b.mag) >= 0
  ELSE MagCmp(a.mag, b.mag) <= 0

\* a >= b
BigIntGe(a, b) == BigIntLe(b, a)

\* how a call completes: it returns a value or throws an error
Return(v) == [threw |-> "none", value |-> v]
Throw(e) == [threw |-> e, value |-> BigInt(0)]

\* a / b: the quotient truncated toward zero; a zero divisor throws RangeError
BigIntDivide(a, b) ==
  IF b.mag = <<>> THEN Throw("RangeError")
  ELSE Return(Signed(a.neg # b.neg, MagDivMod(a.mag, b.mag).q))

----------------------------------------------------------------------------
(* Number: IEEE 754 double precision                                       *)
(*                                                                         *)
(* The quote and the slippage arithmetic run on JavaScript Numbers.  A     *)
(* finite Number is sign * mag * 2^exp with a significand of               *)
(* SignificandBits bits (2^52 <= mag < 2^53) or zero; every operation      *)
(* returns the exact result rounded to the nearest such value, ties to the *)
(* even significand.  The exponent range is not modelled: the values of    *)
(* the model stay far from overflow and from the subnormals.               *)

SignificandBits == 53

RECURSIVE MagPow2(_)
MagPow2(k) ==
  IF k = 0 THEN <<1>>
  ELSE IF k % 2 = 1 THEN MagMulLimb(MagPow2(k - 1), 2, 0)
  ELSE LET half == MagPow2(k \div 2) IN MagMul(half, half)

NaN == [kind |-> "NaN", neg |-> FALSE, mag |-> <<>>, exp |-> 0]
Infinity(neg) == [kind |-> "Infinity", neg |-> neg, mag |-> <<>>, exp |-> 0]
Finite(neg, mag, exp) ==
  [kind |-> "finite", neg |-> neg /\ mag # <<>>, mag |-> mag,
   exp |-> IF mag = <<>> THEN 0 ELSE exp]
Zero == Finite(FALSE, <<>>, 0)

IsNaN(a) == a.kind = "NaN"
IsFinite(a) == a.kind = "finite"
IsZero(a) == a.kind = "finite" /\ a.mag = <<>>

TwoToSignificand == MagPow2(SignificandBits)
HalfTwoToSignificand == MagPow2(SignificandBits - 1)

\* floor(log2(n)) for n >= 1
RECURSIVE Log2Floor(_)
Log2Floor(n) == IF n < 2 THEN 0 ELSE 1 + Log2Floor(n \div 2)

\* log2 of a magnitude, to within two: the bits of its two top limbs and
\* log2(Radix) = 13.2877 for each limb below them
ApproxLog2(mag) ==
  IF Len(mag) = 1 THEN Log2Floor(mag[1])
  ELSE Log2Floor(mag[Len(mag)] * Radix + mag[Len(mag) - 1])
         + ((Len(mag) - 2) * 132877) \div 10000

\* num / den * 2^exp brought to 2^52 <= num / den < 2^53 by factors of 2
RECURSIVE ScaleByTwo(_, _, _)
ScaleByTwo(num, den, exp) ==
  IF MagCmp(num, MagMul(den, HalfTwoToSignificand)) < 0
  THEN ScaleByTwo(MagMulLimb(num, 2, 0), den, exp - 1)
  ELSE IF MagCmp(num, MagMul(den, TwoToSignificand)) >= 0
  THEN ScaleByTwo(num, MagMulLimb(den, 2, 0), exp + 1)
  ELSE [num |-> num, den |-> den, exp |-> exp]

\* num / den * 2^exp with 2^52 <= num / den < 2^53, for num # 0: the shift
\* estimated from the sizes of num and den, then corrected
ScaleToSignificand(num, den, exp) ==
  LET shift == (SignificandBits - 1) - (ApproxLog2(num) - ApproxLog2(den))
  IN ScaleByTwo(MagMul(num, MagPow2(IF shift >= 0 THEN shift ELSE 0)),
                MagMul(den, MagPow2(IF shift >= 0 THEN 0 ELSE -shift)),
                exp - shift)

\* the significand m, which rounding up may have carried to 2^53
Normalized(neg, m, exp) ==
  IF m = TwoToSignificand THEN Finite(neg, HalfTwoToSignificand, exp + 1)
  ELSE Finite(neg, m, exp)

\* the quotient d.q of a division by den, rounded by its remainder d.r to the
\* nearest integer, ties to even
RoundedQuotient(d, den) ==
  LET half == MagCmp(MagMulLimb(d.r, 2, 0), den)
  IN IF half > 0 \/ (half = 0 /\ LimbAt(d.q) % 2 = 1)
     THEN MagAdd(d.q, <<>>, 1) ELSE d.q

RoundScaled(neg, s) ==
  Normalized(neg, RoundedQuotient(MagDivMod(s.num, s.den), s.den), s.exp)

\* the Number nearest to (-1)^neg * num / den * 2^exp, ties to even
RoundToDouble(neg, num, den, exp) ==
  IF num = <<>> THEN Zero ELSE RoundScaled(neg, ScaleToSignificand(num, den, exp))

\* the Number a decimal literal n / scale is read as (parseFloat, a literal)
Decimal(n, scale) ==
  RoundToDouble(n < 0, Limbs(IF n < 0 THEN -n ELSE n), Limbs(scale), 0)

\* the Number nearest to b * 2^exp, for a BigInt b
Scaled(b, exp) == RoundToDouble(b.neg, b.mag, <<1>>, exp)

\* Number(b) of a BigInt b, as a double
ToDouble(b) == Scaled(b, 0)

\* the finite Numbers a and b as BigInts over the common exponent e
Aligned(a, e) ==
  IF IsZero(a) THEN BigInt(0) ELSE Signed(a.neg, MagMul(a.mag, MagPow2(a.exp - e)))
CommonExp(a, b) ==
  IF IsZero(a) THEN b.exp ELSE IF IsZero(b) THEN a.exp
  ELSE IF a.exp < b.exp THEN a.exp ELSE b.exp

Negate(a) == IF IsNaN(a) THEN NaN ELSE [a EXCEPT !.neg = ~a.neg /\ ~IsZero(a)]

\* a + b
DoubleAdd(a, b) ==
  IF IsNaN(a) \/ IsNaN(b) THEN NaN
  ELSE IF ~IsFinite(a) /\ ~IsFinite(b) THEN (IF a.neg = b.neg THEN a ELSE NaN)
  ELSE IF ~IsFinite(a) THEN a
  ELSE IF ~IsFinite(b) THEN b
  ELSE LET e == CommonExp(a, b)
       IN Scaled(BigIntAdd(Aligned(a, e), Aligned(b, e)), e)

\* a - b
DoubleSub(a, b) == DoubleAdd(a, Negate(b))

\* a * b
DoubleMul(a, b) ==
  IF IsNaN(a) \/ IsNaN(b) THEN NaN
  ELSE IF ~IsFinite(a) \/ ~IsFinite(b)
  THEN (IF IsZero(a) \/ IsZero(b) THEN NaN ELSE Infinity(a.neg # b.neg))
  ELSE RoundToDouble(a.neg # b.neg, MagMul(a.mag, b.mag), <<1>>, a.exp + b.exp)

\* a / b
DoubleDiv(a, b) ==
  IF IsNaN(a) \/ IsNaN(b) THEN NaN
  ELSE IF ~IsFinite(a) THEN (IF IsFinite(b) THEN Infinity(a.neg # b.neg) ELSE NaN)
  ELSE IF ~IsFinite(b) THEN Zero
  ELSE IF IsZero(b) THEN (IF IsZero(a) THEN NaN ELSE Infinity(a.neg # b.neg))
  ELSE RoundToDouble(a.neg # b.neg, a.mag, b.mag, a.exp - b.exp)

\* a > b; false when either is NaN
DoubleGt(a, b) ==
  IF IsNaN(a) \/ IsNaN(b) THEN FALSE
  ELSE IF ~IsFinite(a) THEN ~a.neg /\ a # b
  ELSE IF ~IsFinite(b) THEN b.neg
  ELSE LET e == CommonExp(a, b)
       IN ~BigIntLe(Aligned(a, e), Aligned(b, e))

\* Math.max(a, b)
MathMax(a, b) ==
  IF IsNaN(a) \/ IsNaN(b) THEN NaN ELSE IF DoubleGt(b, a) THEN b ELSE a

\* Math.min(a, b)
MathMin(a, b) ==
  IF IsNaN(a) \/ IsNaN(b) THEN NaN ELSE IF DoubleGt(a, b) THEN b ELSE a

\* the quotient d.q of a magnitude, with the sign neg, rounded toward
\* minus infinity
FlooredQuotient(neg, d) == IF neg /\ d.r # <<>> THEN MagAdd(d.q, <<>>, 1) ELSE d.q

\* Math.floor(a)
MathFloor(a) ==
  IF ~IsFinite(a) \/ a.exp >= 0 THEN a
  ELSE RoundToDouble(a.neg, FlooredQuotient(a.neg, MagDivMod(a.mag, MagPow2(-a.exp))),
                     <<1>>, 0)

\* the quotient d.q with the sign neg when nothing remains, RangeError otherwise
WholeQuotient(neg, d) ==
  IF d.r # <<>> THEN Throw("RangeError") ELSE Return(Signed(neg, d.q))

\* BigInt(a) of a Number a: RangeError unless a is an integer
DoubleToBigInt(a) ==
  IF ~IsFinite(a) THEN Throw("RangeError")
  ELSE IF IsZero(a) THEN Return(BigInt(0))
  ELSE IF a.exp >= 0 THEN Return(Aligned(a, 0))
  ELSE WholeQuotient(a.neg, MagDivMod(a.mag, MagPow2(-a.exp)))

\* a.toFixed(digits), as the integer count of units of 10^-digits: the count
\* nearest to a, the larger one of two equally near; "NaN" for NaN
MagPow10(k) ==
  [i \in 1..(k \div 4) |-> 0]
    \o <<CASE k % 4 = 0 -> 1 [] k % 4 = 1 -> 10 [] k % 4 = 2 -> 100 [] OTHER -> 1000>>

\* twice the magnitude scaled * 2^exp plus one, as a fraction over FixedDen
FixedNum(scaled, exp) ==
  IF exp >= 0 THEN MagMul(scaled, MagPow2(exp + 1))
  ELSE MagAdd(MagMulLimb(scaled, 2, 0), MagPow2(-exp), 0)

FixedDen(exp) == IF exp >= 0 THEN <<2>> ELSE MagPow2(1 - exp)

Fixed(neg, n) == [text |-> "decimal", units |-> IF neg THEN -n ELSE n]

ToFixed(a, digits) ==
  IF IsNaN(a) THEN [text |-> "NaN", units |-> 0]
  ELSE IF ~IsFinite(a) THEN [text |-> "Infinity", units |-> 0]
  ELSE Fixed(a.neg, LimbsValue(MagDivMod(FixedNum(MagMul(a.mag, MagPow10(digits)), a.exp),
                                         FixedDen(a.exp)).q))

----------------------------------------------------------------------------
(* Swap quote calculations (local) *)

\* the fee keeps FeeNumerator / FeeDenominator of the input
FeeNumerator == 997
FeeDenominator == 1000

getAmountOutRoundedUp(amountIn, reserveIn, reserveOut) ==
  IF BigIntLe(amountIn, BigInt(0)) THEN Return(BigInt(0))
  ELSE IF BigIntLe(reserveIn, BigInt(0)) \/ BigIntLe(reserveOut, BigInt(0))
  THEN Return(BigInt(0))
  ELSE LET amountInWithFee == BigIntMul(amountIn, BigInt(FeeNumerator))
           numerator == BigIntMul(amountInWithFee, reserveOut)
           denominator ==
             BigIntAdd(BigIntMul(reserveIn, BigInt(FeeDenominator)), amountInWithFee)
       IN Return(BigIntAdd(BigIntDivide(numerator, denominator).value, BigInt(1)))

getAmountOutNoFee(amountIn, reserveIn, reserveOut) ==
  IF BigIntLe(amountIn, BigInt(0)) THEN Return(BigInt(0))
  ELSE IF BigIntLe(reserveIn, BigInt(0)) \/ BigIntLe(reserveOut, BigInt(0))
  THEN Return(BigInt(0))
  ELSE LET numerator == BigIntMul(amountIn, reserveOut)
           denominator == BigIntAdd(reserveIn, amountIn)
       IN BigIntDivide(numerator, denominator)

getAmountOutNoReserveCheck(amountIn, reserveIn, reserveOut) ==
  IF BigIntLe(amountIn, BigInt(0)) THEN Return(BigInt(0))
  ELSE LET amountInWithFee == BigIntMul(amountIn, BigInt(FeeNumerator))
           numerator == BigIntMul(amountInWithFee, reserveOut)
           denominator ==
             BigIntAdd(BigIntMul(reserveIn, BigInt(FeeDenominator)), amountInWithFee)
       IN BigIntDivide(numerator, denominator)

getAmountOutZeroCheckOnly(amountIn, reserveIn, reserveOut) ==
  IF amountIn = BigInt(0) THEN Return(BigInt(0))
  ELSE IF reserveIn = BigInt(0) \/ reserveOut = BigInt(0) THEN Return(BigInt(0))
  ELSE LET amountInWithFee == BigIntMul(amountIn, BigInt(FeeNumerator))
           numerator == BigIntMul(amountInWithFee, reserveOut)
           denominator ==
             BigIntAdd(BigIntMul(reserveIn, BigInt(FeeDenominator)), amountInWithFee)
       IN BigIntDivide(numerator, denominator)

getAmountOutFeeOnReserve(amountIn, reserveIn, reserveOut) ==
  IF BigIntLe(amountIn, BigInt(0)) THEN Return(BigInt(0))
  ELSE IF BigIntLe(reserveIn, BigInt(0)) \/ BigIntLe(reserveOut, BigInt(0))
  THEN Return(BigInt(0))
  ELSE LET amountInWithFee == BigIntMul(amountIn, BigInt(FeeDenominator))
           numerator == BigIntMul(amountInWithFee, reserveOut)
           denominator ==
             BigIntAdd(BigIntMul(reserveIn, BigInt(FeeNumerator)), amountInWithFee)
       IN BigIntDivide(numerator, denominator)

\* amount_out = (amount_in * 997 * reserve_out) / (reserve_in * 1000 + amount_in * 997)
getAmountOut(amountIn, reserveIn, reserveOut) ==
  IF BigIntLe(amountIn, BigInt(0)) THEN Return(BigInt(0))
  ELSE IF BigIntLe(reserveIn, BigInt(0)) \/ BigIntLe(reserveOut, BigInt(0))
  THEN Return(BigInt(0))
  ELSE LET amountInWithFee == BigIntMul(amountIn, BigInt(FeeNumerator))
           numerator == BigIntMul(amountInWithFee, reserveOut)
           denominator ==
             BigIntAdd(BigIntMul(reserveIn, BigInt(FeeDenominator)), amountInWithFee)
       IN BigIntDivide(numerator, denominator)

getAmountInNoRoundUp(amountOut, reserveIn, reserveOut) ==
  IF BigIntLe(amountOut, BigInt(0)) THEN Return(BigInt(0))
  ELSE IF BigIntLe(reserveIn, BigInt(0)) \/ BigIntLe(reserveOut, BigInt(0))
  THEN Return(BigInt(0))
  ELSE IF BigIntGe(amountOut, reserveOut) THEN Return(BigInt(0))
  ELSE LET numerator ==
             BigIntMul(BigIntMul(reserveIn, amountOut), BigInt(FeeDenominator))
           denominator ==
             BigIntMul(BigIntSub(reserveOut, amountOut), BigInt(FeeNumerator))
       IN BigIntDivide(numerator, denominator)

getAmountInRoundUpIfInexact(amountOut, reserveIn, reserveOut) ==
  IF BigIntLe(amountOut, BigInt(0)) THEN Return(BigInt(0))
  ELSE IF BigIntLe(reserveIn, BigInt(0)) \/ BigIntLe(reserveOut, BigInt(0))
  THEN Return(BigInt(0))
  ELSE IF BigIntGe(amountOut, reserveOut) THEN Return(BigInt(0))
  ELSE LET numerator ==
             BigIntMul(BigIntMul(reserveIn, amountOut), BigInt(FeeDenominator))
           denominator ==
             BigIntMul(BigIntSub(reserveOut, amountOut), BigInt(FeeNumerator))
           quotient == BigIntDivide(numerator, denominator)
       IN IF BigIntMul(quotient.value, denominator) = numerator
          THEN quotient
          ELSE Return(BigIntAdd(quotient.value, BigInt(1)))

getAmountInAllowsWholeReserve(amountOut, reserveIn, reserveOut) ==
  IF BigIntLe(amountOut, BigInt(0)) THEN Return(BigInt(0))
  ELSE IF BigIntLe(reserveIn, BigInt(0)) \/ BigIntLe(reserveOut, BigInt(0))
  THEN Return(BigInt(0))
  ELSE IF ~BigIntLe(amountOut, reserveOut) THEN Return(BigInt(0))
  ELSE LET numerator ==
             BigIntMul(BigIntMul(reserveIn, amountOut), BigInt(FeeDenominator))
           denominator ==
             BigIntMul(BigIntSub(reserveOut, amountOut), BigInt(FeeNumerator))
           quotient == BigIntDivide(numerator, denominator)
       IN IF quotient.threw # "none" THEN quotient
          ELSE Return(BigIntAdd(quotient.value, BigInt(1)))

\* amount_in = (reserve_in * amount_out * 1000) / ((reserve_out - amount_out) * 997) + 1
getAmountIn(amountOut, reserveIn, reserveOut) ==
  IF BigIntLe(amountOut, BigInt(0)) THEN Return(BigInt(0))
  ELSE IF BigIntLe(reserveIn, BigInt(0)) \/ BigIntLe(reserveOut, BigInt(0))
  THEN Return(BigInt(0))
  ELSE IF BigIntGe(amountOut, reserveOut) THEN Return(BigInt(0))
  ELSE LET numerator ==
             BigIntMul(BigIntMul(reserveIn, amountOut), BigInt(FeeDenominator))
           denominator ==
             BigIntMul(BigIntSub(reserveOut, amountOut), BigInt(FeeNumerator))
           quotient == BigIntDivide(numerator, denominator)
       IN IF quotient.threw # "none" THEN quotient
          ELSE Return(BigIntAdd(quotient.value, BigInt(1)))

----------------------------------------------------------------------------
(* Configuration (EctoplasmConfig) *)

Tokens == {"CSPR", "ECTO", "USDC", "WBTC"}

\* the first byte of a token's contract hash; 0 for the native token, which has none
TokenHash(symbol) ==
  CASE symbol = "ECTO" -> 251 [] symbol = "USDC" -> 133 [] symbol = "WBTC" -> 224
    [] OTHER -> 0

TokenDecimals(symbol) ==
  CASE symbol = "CSPR" -> 9 [] symbol = "ECTO" -> 18 [] symbol = "USDC" -> 6
    [] symbol = "WBTC" -> 8 [] OTHER -> 18

\* swap.defaultSlippage: 0.5 (percent)
DefaultSlippage == Decimal(5, 10)

----------------------------------------------------------------------------
(* Amounts as text and as raw units *)

\* A human-readable amount is the decimal n * 10^-digits, digits being the
\* number of places written after the point.
AmountText(n, digits) == [n |-> n, digits |-> digits]

\* parseTokenAmount: the written places padded with zeros, or cut, to decimals
parseTokenAmount(amount, decimals) ==
  IF amount.digits <= decimals
  THEN BigIntMul(BigInt(amount.n), Signed(FALSE, MagPow10(decimals - amount.digits)))
  ELSE BigIntDivide(BigInt(amount.n),
                    Signed(FALSE, MagPow10(amount.digits - decimals))).value

\* parseFloat of an amount
parseFloat(amount) ==
  RoundToDouble(amount.n < 0, Limbs(IF amount.n < 0 THEN -amount.n ELSE amount.n),
                MagPow10(amount.digits), 0)

\* formatTokenAmount keeps six places of the fraction and cuts the rest; the
\* text is given as its count of units of 10^-6 (every token has six places
\* or more)
formatTokenAmount(amount, decimals) ==
  Number(BigIntDivide(amount, Signed(FALSE, MagPow10(decimals - 6))).value)

\* x || fallback, for a Number x
OrElse(x, fallback) == IF IsNaN(x) \/ IsZero(x) THEN fallback ELSE x

----------------------------------------------------------------------------
(* Slippage *)

\* BigInt(Math.floor((1 - slippagePercent / 100) * 10000))
slippageMultiplier(slippagePercent) ==
  DoubleToBigInt(MathFloor(DoubleMul(
    DoubleSub(Decimal(1, 1), DoubleDiv(slippagePercent, Decimal(100, 1))),
    Decimal(10000, 1))))

\* amount * slippageMultiplier / BigInt(10000)
Multiplied(amount, multiplier) ==
  IF multiplier.threw # "none" THEN multiplier
  ELSE BigIntDivide(BigIntMul(amount, multiplier.value), BigInt(10000))

minimumAfterSlippage(amount, slippagePercent) ==
  Multiplied(amount, slippageMultiplier(slippagePercent))

----------------------------------------------------------------------------
(* Pair reserves *)

\* what the node answers: whether the factory knows the pair ("found", "none",
\* or "error" when the query throws), and the two reserve queries, each the
\* value read, <<v>>, or null, <<>>, when the query failed
ChainAnswer(pair, reserve0, reserve1) ==
  [pair |-> pair, reserve0 |-> reserve0, reserve1 |-> reserve1]

\* BigInt(reserve || 0)
ReserveOrZero(read) == IF read = <<>> THEN BigInt(0) ELSE BigInt(read[1])

\* sortTokens: the smaller hash first
sortTokens(tokenA, tokenB) ==
  IF TokenHash(tokenA) < TokenHash(tokenB) THEN <<tokenA, tokenB>> ELSE <<tokenB, tokenA>>

getPairReserves(tokenA, tokenB, chain) ==
  IF chain.pair # "found"
  THEN [reserveA |-> BigInt(0), reserveB |-> BigInt(0), exists |-> FALSE]
  ELSE IF sortTokens(tokenA, tokenB)[1] = tokenA
  THEN [reserveA |-> ReserveOrZero(chain.reserve0),
        reserveB |-> ReserveOrZero(chain.reserve1), exists |-> TRUE]
  ELSE [reserveA |-> ReserveOrZero(chain.reserve1),
        reserveB |-> ReserveOrZero(chain.reserve0), exists |-> TRUE]

----------------------------------------------------------------------------
(* Swap quotes *)

\* A quote, with the fields the swap page and executeSwap read.  Amounts in
\* raw units are BigInts, the texts amountOut and minReceived are given as
\* counts of units of 10^-6, priceImpact as toFixed gives it.
\* amountOutRaw of a demo quote is not modelled (it is parsed back from the
\* decimal text of a Number): nothing reads it, executeSwap and the swap
\* button refuse a demo quote.
NoImpact == [text |-> "decimal", units |-> 0]

InvalidQuote(error) ==
  [valid |-> FALSE, demo |-> FALSE, error |-> error, amountInRaw |-> BigInt(0),
   amountOut |-> 0, amountOutRaw |-> BigInt(0), minReceived |-> 0,
   minReceivedRaw |-> BigInt(0), priceImpact |-> NoImpact,
   reserveA |-> BigInt(0), reserveB |-> BigInt(0)]

\* a literal of the source, as <<n, scale>> for the decimal n / scale
Literal(l) == Decimal(l[1], l[2])

\* the demo rate table; 1 for a pair it does not list
DemoRate(from, to) ==
  Literal(CASE from = "CSPR" /\ to = "ECTO" -> <<5, 100>>
            [] from = "CSPR" /\ to = "USDC" -> <<35, 1000>>
            [] from = "CSPR" /\ to = "WBTC" -> <<8, 10000000>>
            [] from = "ECTO" /\ to = "CSPR" -> <<20, 1>>
            [] from = "ECTO" /\ to = "USDC" -> <<70, 100>>
            [] from = "ECTO" /\ to = "WBTC" -> <<16, 1000000>>
            [] from = "USDC" /\ to = "CSPR" -> <<2857, 100>>
            [] from = "USDC" /\ to = "ECTO" -> <<143, 100>>
            [] from = "USDC" /\ to = "WBTC" -> <<23, 1000000>>
            [] from = "WBTC" /\ to = "CSPR" -> <<1250000, 1>>
            [] from = "WBTC" /\ to = "ECTO" -> <<62500, 1>>
            [] from = "WBTC" /\ to = "USDC" -> <<43750, 1>>
            [] OTHER -> <<1, 1>>)

\* the demo quote for the output amountOutNum = amountInNum * rate
DemoQuoteOf(tokenInSymbol, amountIn, amountOutNum) ==
  [valid |-> TRUE, demo |-> TRUE, error |-> "",
   amountInRaw |-> parseTokenAmount(amountIn, TokenDecimals(tokenInSymbol)),
   amountOut |-> ToFixed(amountOutNum, 6).units,
   amountOutRaw |-> BigInt(0),
   minReceived |->
     ToFixed(DoubleMul(amountOutNum,
                       DoubleSub(Decimal(1, 1),
                                 DoubleDiv(DefaultSlippage, Decimal(100, 1)))), 6).units,
   minReceivedRaw |-> BigInt(0),
   priceImpact |-> ToFixed(Zero, 2), reserveA |-> BigInt(0), reserveB |-> BigInt(0)]

getDemoQuote(tokenInSymbol, tokenOutSymbol, amountIn) ==
  DemoQuoteOf(tokenInSymbol, amountIn,
              DoubleMul(OrElse(parseFloat(amountIn), Zero),
                        DemoRate(tokenInSymbol, tokenOutSymbol)))

spotPriceInverted(reserves) == DoubleDiv(ToDouble(reserves.reserveA), ToDouble(reserves.reserveB))

spotPrice(reserves) == DoubleDiv(ToDouble(reserves.reserveB), ToDouble(reserves.reserveA))

\* spotPrice > 0 ? ((spotPrice - executionPrice) / spotPrice) * 100 : 0
priceImpactOf(spot, executionPrice) ==
  IF DoubleGt(spot, Zero)
  THEN DoubleMul(DoubleDiv(DoubleSub(spot, executionPrice), spot), Decimal(100, 1))
  ELSE Zero

\* Number(amountOutRaw) / Number(amountInRaw)
executionPriceOf(amountOutRaw, amountInRaw) ==
  DoubleDiv(ToDouble(amountOutRaw), ToDouble(amountInRaw))

\* the quote returned for the output amountOutRaw and the minimum minReceivedRaw
QuoteOf(tokenOutSymbol, amountInRaw, reserves, amountOutRaw, minReceivedRaw) ==
  IF minReceivedRaw.threw # "none" THEN InvalidQuote(minReceivedRaw.threw)
  ELSE [valid |-> TRUE, demo |-> FALSE, error |-> "",
        amountInRaw |-> amountInRaw,
        amountOut |-> formatTokenAmount(amountOutRaw, TokenDecimals(tokenOutSymbol)),
        amountOutRaw |-> amountOutRaw,
        minReceived |->
          formatTokenAmount(minReceivedRaw.value, TokenDecimals(tokenOutSymbol)),
        minReceivedRaw |-> minReceivedRaw.value,
        priceImpact |->
          ToFixed(MathMax(Zero, priceImpactOf(spotPrice(reserves),
                                              executionPriceOf(amountOutRaw, amountInRaw))),
                  2),
        reserveA |-> reserves.reserveA, reserveB |-> reserves.reserveB]

\* the quote for what getAmountOut answered
QuoteFor(tokenOutSymbol, amountInRaw, reserves, out) ==
  IF out.threw # "none" THEN InvalidQuote(out.threw)
  ELSE QuoteOf(tokenOutSymbol, amountInRaw, reserves, out.value,
               minimumAfterSlippage(out.value, DefaultSlippage))

\* the quote from live reserves, once the pair is known to exist
LiveQuote(tokenOutSymbol, amountInRaw, reserves) ==
  QuoteFor(tokenOutSymbol, amountInRaw, reserves,
           getAmountOut(amountInRaw, reserves.reserveA, reserves.reserveB))

\* the quote from the reserves read, or the refusal when the pair is not found
QuoteFromReserves(tokenOutSymbol, amountInRaw, reserves) ==
  IF ~reserves.exists THEN InvalidQuote("Pair does not exist")
  ELSE LiveQuote(tokenOutSymbol, amountInRaw, reserves)

\* getSwapQuote; a token without a contract hash and an unavailable SDK take
\* the same way out, the demo quote
getSwapQuote(tokenInSymbol, tokenOutSymbol, amountIn, sdkAvailable, chain) ==
  IF tokenInSymbol \notin Tokens \/ tokenOutSymbol \notin Tokens
  THEN InvalidQuote("Invalid token")
  ELSE IF TokenHash(tokenInSymbol) = 0 \/ TokenHash(tokenOutSymbol) = 0 \/ ~sdkAvailable
  THEN getDemoQuote(tokenInSymbol, tokenOutSymbol, amountIn)
  ELSE QuoteFromReserves(tokenOutSymbol,
                         parseTokenAmount(amountIn, TokenDecimals(tokenInSymbol)),
                         getPairReserves(tokenInSymbol, tokenOutSymbol, chain))

----------------------------------------------------------------------------
(* State: the reserves handed to the quote functions, the last call made   *)
(* and how it completed, and the call before it when the last call was fed *)
(* with that call's result.                                                *)

VARIABLES
  reserves, call, result, prior,               \* the quote functions
  connectedWallet, connectedAccount,           \* window.connectedWallet, window.connectedAccount
  request, currentSwapQuote, display, deploy,  \* the swap page
  now, timers, timeout, debounced, invocations,  \* a debounced function
  failureCount, currentInterval, intervalId, inFlight, ticker,  \* the price ticker
  localStorage, connectBtn, attempt, providers, walletLog,      \* the wallet connection
  theme,                                       \* the colour theme of the page
  swap,                                        \* a run of demoSwap / executeSwap
  deployWait,                                  \* a run of waitForDeploy
  dashboard,                                   \* DashboardState and the calendar
  quoteRequests                                \* overlapping runs of updateOutputs

vars ==
  <<reserves, call, result, prior, connectedWallet, connectedAccount,
    request, currentSwapQuote, display, deploy,
    now, timers, timeout, debounced, invocations,
    failureCount, currentInterval, intervalId, inFlight, ticker,
    localStorage, connectBtn, attempt, providers, walletLog,
    theme, swap, deployWait, dashboard, quoteRequests>>

QuoteCallVars == <<reserves, call, result, prior>>
SwapPageVars == <<request, currentSwapQuote, display, deploy>>
WalletGlobals == <<connectedWallet, connectedAccount>>
DebounceVars == <<now, timers, timeout, debounced, invocations>>
TickerVars == <<failureCount, currentInterval, intervalId, inFlight, ticker>>
WalletPageVars == <<localStorage, connectBtn, attempt, providers, walletLog>>
PageVars == <<theme, swap, deployWait, dashboard, quoteRequests>>

\* what each part of the program leaves alone
OutsideQuoteCalls ==
  <<WalletGlobals, SwapPageVars, DebounceVars, TickerVars, WalletPageVars, PageVars>>
OutsideSwapPage ==
  <<QuoteCallVars, DebounceVars, TickerVars, WalletPageVars, PageVars>>
OutsideDebounce ==
  <<QuoteCallVars, WalletGlobals, SwapPageVars, TickerVars, WalletPageVars, PageVars>>
OutsideTicker ==
  <<QuoteCallVars, WalletGlobals, SwapPageVars, DebounceVars, WalletPageVars, PageVars>>
OutsideWallet == <<QuoteCallVars, SwapPageVars, DebounceVars, TickerVars, PageVars>>
Elsewhere ==
  <<QuoteCallVars, WalletGlobals, SwapPageVars, DebounceVars, TickerVars,
    WalletPageVars>>
OutsideTheme == <<Elsewhere, swap, deployWait, dashboard, quoteRequests>>
OutsideSwap ==
  <<QuoteCallVars, SwapPageVars, DebounceVars, TickerVars, WalletPageVars,
    theme, deployWait, dashboard, quoteRequests>>
OutsideWait == <<Elsewhere, theme, swap, dashboard, quoteRequests>>
OutsideDashboard == <<Elsewhere, theme, swap, deployWait, quoteRequests>>
OutsideQuoteRequests ==
  <<QuoteCallVars, WalletGlobals, request, deploy, DebounceVars, TickerVars,
    WalletPageVars, theme, swap, deployWait, dashboard>>

----------------------------------------------------------------------------
(* The swap page: updateOutputs asks for a quote and shows it; executeSwap *)
(* and addLiquidity build a deploy from amounts and a slippage tolerance.  *)

\* slippage tolerances, in thousandths of a percent
SlippagePercents == {-500, 0, 5, 500, 1000, 18100, 50000, 100000, 150000}
\* what the slippage field of the page may hold, in thousandths of a percent
SlippageInputs == {0, 1000}

NoChainAnswer == ChainAnswer("none", <<>>, <<>>)
ReserveReads == {<<>>, <<0>>, <<1000>>, <<10000>>}
ChainAnswers ==
  {NoChainAnswer, ChainAnswer("error", <<>>, <<>>)}
    \cup {ChainAnswer("found", r0, r1) : r0 \in ReserveReads, r1 \in ReserveReads}

SwapPairs == {<<"CSPR", "ECTO">>, <<"CSPR", "CSPR">>, <<"ECTO", "USDC">>, <<"XYZ", "ECTO">>}
SwapAmounts ==
  {AmountText(0, 0), AmountText(100, 0), AmountText(251, 18), AmountText(1115, 18)}
LiquidityAmounts == {AmountText(200, 18), AmountText(1000, 18)}

NoRequest ==
  [tokenIn |-> "", tokenOut |-> "", amountIn |-> AmountText(0, 0),
   sdkAvailable |-> FALSE, chain |-> NoChainAnswer]
\* window.currentSwapQuote when it holds no quote
NullQuote == InvalidQuote("null")
NoDisplay ==
  [shown |-> "nothing", toAmount |-> 0, priceImpact |-> NoImpact, minReceived |-> 0,
   slippagePct |-> 0, demoNote |-> FALSE]
NoDeploy ==
  [entryPoint |-> "none", status |-> "none", error |-> "",
   slippagePercent |-> 0, desired |-> <<>>, minimums |-> <<>>]

SwapPageAtRest ==
  /\ request = NoRequest
  /\ currentSwapQuote = NullQuote
  /\ display = NoDisplay
  /\ deploy = NoDeploy

WalletDisconnected == connectedWallet = "" /\ connectedAccount = ""

QuoteCallsAtRest ==
  /\ reserves = [reserveIn |-> 0, reserveOut |-> 0]
  /\ call = [fn |-> "none", amount |-> 0, reserveIn |-> 0, reserveOut |-> 0]
  /\ result = [threw |-> "none", value |-> 0]
  /\ prior = [call |-> call, result |-> result]

\* the debounced function before its first call
DebounceAtRest ==
  /\ now = 0
  /\ timers = {}
  /\ timeout = 0
  /\ debounced = <<>>
  /\ invocations = <<>>

PRICE_TICKER_BASE_INTERVAL == 60000
PRICE_TICKER_MAX_BACKOFF == 300000
PRICE_TICKER_MAX_FAILURES == 3

NoInterval == [period |-> 0, elapsed |-> 0]
NoTickerText == [text |-> "", updated |-> FALSE, last |-> "none", streak |-> 0]

\* the price ticker before initPriceTicker runs
TickerAtRest ==
  /\ failureCount = 0
  /\ currentInterval = PRICE_TICKER_BASE_INTERVAL
  /\ intervalId = NoInterval
  /\ inFlight = 0
  /\ ticker = NoTickerText

\* localStorage without the two keys of the connection
EmptyStorage == [wallet |-> "", account |-> ""]
\* the connect button as the page is served
ButtonAsServed == [textContent |-> "Connect Wallet", disabled |-> FALSE, connected |-> FALSE]
NoAttempt ==
  [phase |-> "idle", selectedWallet |-> "", timer |-> "none", result |-> "none",
   late |-> "none"]
NoWalletLog == [last |-> "none", sinceDisconnect |-> FALSE, loads |-> 0]

\* the page with no connection stored and none attempted
WalletPageAtRest ==
  /\ localStorage = EmptyStorage
  /\ connectBtn = ButtonAsServed
  /\ attempt = NoAttempt
  /\ providers = {}
  /\ walletLog = NoWalletLog

\* the theme before any script has run: nothing stored, no data-theme
\* attribute on the document
NoTheme == [stored |-> "", dataTheme |-> "", log |-> <<>>]
ThemeAtRest == theme = NoTheme

NoSwap ==
  [pc |-> "idle", caller |-> "", connected |-> FALSE, called |-> FALSE,
   quote |-> [set |-> FALSE, valid |-> FALSE, demo |-> FALSE, amountInRaw |-> 0],
   hasAllowance |-> "unknown", approval |-> "none", puts |-> <<>>,
   outcome |-> "none", error |-> "", runs |-> 0]
SwapAtRest == swap = NoSwap

NoWait ==
  [pc |-> "idle", elapsed |-> 0, timeoutMs |-> 0,
   last |-> [kind |-> "none", error_message |-> ""], swallowed |-> FALSE,
   result |-> [success |-> FALSE, error |-> ""]]
WaitAtRest == deployWait = NoWait

\* the dashboard never opened
NoDashboard ==
  [stored |-> "none", today |-> 0, ops |-> 0, last |-> "none", before |-> "none",
   awards |-> <<>>, redemptions |-> <<>>, done |-> {}]
DashboardAtRest == dashboard = NoDashboard

NoQuoteRequests == [input |-> AmountText(0, 0), pending |-> {}, issued |-> 0]
QuoteRequestsAtRest == quoteRequests = NoQuoteRequests

PagesAtRest ==
  /\ ThemeAtRest
  /\ SwapAtRest
  /\ WaitAtRest
  /\ DashboardAtRest
  /\ QuoteRequestsAtRest

ElsewhereAtRest ==
  DebounceAtRest /\ TickerAtRest /\ WalletPageAtRest /\ PagesAtRest

NoCall == [fn |-> "none", amount |-> 0, reserveIn |-> 0, reserveOut |-> 0]
NoResult == [threw |-> "none", value |-> 0]
NoPrior == [call |-> NoCall, result |-> NoResult]

\* a completed call, its BigInt value read as a Number
Outcome(completion) == [threw |-> completion.threw, value |-> Number(completion.value)]

CallOf(fn, amount) ==
  [fn |-> fn, amount |-> amount,
   reserveIn |-> reserves.reserveIn, reserveOut |-> reserves.reserveOut]

QuoteOut(amountIn) ==
  Outcome(getAmountOut(BigInt(amountIn), BigInt(reserves.reserveIn),
                       BigInt(reserves.reserveOut)))

QuoteIn(amountOut) ==
  Outcome(getAmountIn(BigInt(amountOut), BigInt(reserves.reserveIn),
                      BigInt(reserves.reserveOut)))

\* the reserves and amounts of the small pools: -1 stands for the negative
\* values, 0 for an empty reserve, FeeNumerator for a reserve that makes the
\* division of getAmountIn exact
ReservesIn == (-1 .. MaxReserve) \cup {FeeNumerator}
ReservesOut == -1 .. MaxReserve
Amounts == -1 .. MaxAmount

\* the pool of the worked example and the amounts around its amountIn
ScenarioReserves == [reserveIn |-> 1000 * 1000, reserveOut |-> 2 * 1000 * 1000]
ScenarioAmounts == (1000 - ScenarioSpread) .. (1000 + ScenarioSpread)
ScenarioMaxReserve == ScenarioReserves.reserveIn + 1000 + ScenarioSpread

Init ==
  /\ reserves \in [reserveIn : ReservesIn, reserveOut : ReservesOut]
  /\ call = NoCall
  /\ result = NoResult
  /\ prior = NoPrior
  /\ WalletDisconnected
  /\ SwapPageAtRest
  /\ ElsewhereAtRest

InitScenario ==
  /\ reserves = ScenarioReserves
  /\ call = NoCall
  /\ result = NoResult
  /\ prior = NoPrior
  /\ WalletDisconnected
  /\ SwapPageAtRest
  /\ ElsewhereAtRest

\* a caller asks getAmountOut for the output of amountIn
CallGetAmountOut(amounts) ==
  \E amountIn \in amounts :
    /\ call' = CallOf("getAmountOut", amountIn)
    /\ result' = QuoteOut(amountIn)
    /\ prior' = NoPrior
    /\ UNCHANGED reserves

\* a caller asks getAmountIn for the input that buys amountOut
CallGetAmountIn(amounts) ==
  \E amountOut \in amounts :
    /\ call' = CallOf("getAmountIn", amountOut)
    /\ result' = QuoteIn(amountOut)
    /\ prior' = NoPrior
    /\ UNCHANGED reserves

\* the output getAmountOut quoted is handed to getAmountIn, same reserves
RecoverInput ==
  /\ call.fn = "getAmountOut"
  /\ result.threw = "none"
  /\ call' = CallOf("getAmountIn", result.value)
  /\ result' = QuoteIn(result.value)
  /\ prior' = [call |-> call, result |-> result]
  /\ UNCHANGED reserves

\* the input getAmountIn quoted is handed to getAmountOut, same reserves
PayQuotedInput ==
  /\ call.fn = "getAmountIn"
  /\ result.threw = "none"
  /\ call' = CallOf("getAmountOut", result.value)
  /\ result' = QuoteOut(result.value)
  /\ prior' = [call |-> call, result |-> result]
  /\ UNCHANGED reserves

\* a trade of amountIn >= 0 against a pool with both reserves positive:
\* amountIn is added to the input reserve and the quoted output is removed
\* from the output reserve
Trade(amounts, maxReserve) ==
  \E amountIn \in amounts :
    /\ amountIn >= 0
    /\ reserves.reserveIn > 0 /\ reserves.reserveOut > 0
    /\ reserves.reserveIn + amountIn <= maxReserve
    /\ LET quote == QuoteOut(amountIn)
       IN /\ quote.threw = "none"
          /\ reserves' = [reserveIn |-> reserves.reserveIn + amountIn,
                          reserveOut |-> reserves.reserveOut - quote.value]
          /\ call' = CallOf("trade", amountIn)
          /\ result' = quote
          /\ prior' = NoPrior

Next ==
  \/ CallGetAmountOut(Amounts) /\ UNCHANGED OutsideQuoteCalls
  \/ CallGetAmountIn(Amounts) /\ UNCHANGED OutsideQuoteCalls
  \/ RecoverInput /\ UNCHANGED OutsideQuoteCalls
  \/ PayQuotedInput /\ UNCHANGED OutsideQuoteCalls
  \/ Trade(Amounts, MaxReserve) /\ UNCHANGED OutsideQuoteCalls

Spec == Init /\ [][Next]_vars

NextScenario ==
  \/ CallGetAmountOut(ScenarioAmounts) /\ UNCHANGED OutsideQuoteCalls
  \/ CallGetAmountIn(ScenarioAmounts) /\ UNCHANGED OutsideQuoteCalls
  \/ RecoverInput /\ UNCHANGED OutsideQuoteCalls
  \/ PayQuotedInput /\ UNCHANGED OutsideQuoteCalls
  \/ Trade(ScenarioAmounts, ScenarioMaxReserve) /\ UNCHANGED OutsideQuoteCalls

SpecScenario == InitScenario /\ [][NextScenario]_vars

----------------------------------------------------------------------------
(* The swap page: its handlers *)

\* the demo rate table of the page; 1 for a pair it does not list
rateTable(from, to) ==
  Literal(CASE from = "CSPR" /\ to = "ECTO" -> <<5, 10>>
            [] from = "ECTO" /\ to = "CSPR" -> <<2, 1>>
            [] OTHER -> <<1, 1>>)

\* what updateOutputs shows for a valid quote; the slippage written into the
\* order summary is given in thousandths of a percent
QuoteDisplay(quote, slippagePct) ==
  [shown |-> "quote", toAmount |-> quote.amountOut, priceImpact |-> quote.priceImpact,
   minReceived |-> quote.minReceived, slippagePct |-> ToFixed(slippagePct, 3).units,
   demoNote |-> quote.demo]

\* what updateOutputs shows without a valid quote: the rate of the page's table
FallbackOf(val, rate, slippagePct, shown) ==
  [shown |-> IF shown THEN "fallback" ELSE "hidden",
   toAmount |-> ToFixed(DoubleMul(val, rate), 6).units,
   priceImpact |->
     ToFixed(DoubleMul(MathMin(Decimal(5, 10), DoubleDiv(val, Decimal(1000, 1))),
                       Decimal(100, 1)), 2),
   minReceived |->
     IF shown
     THEN ToFixed(DoubleMul(DoubleMul(val, rate),
                            DoubleSub(Decimal(1, 1),
                                      DoubleDiv(slippagePct, Decimal(100, 1)))), 6).units
     ELSE 0,
   slippagePct |-> ToFixed(slippagePct, 3).units, demoNote |-> FALSE]

FallbackDisplay(tokenIn, tokenOut, val, slippagePct) ==
  FallbackOf(val, OrElse(rateTable(tokenIn, tokenOut), Decimal(1, 1)), slippagePct,
             DoubleGt(val, Zero))

\* updateOutputs('from'): the amount typed, the quote asked of CasperService
\* when the amount is positive, and what is then shown
UpdateOutputs ==
  /\ display = NoDisplay
  /\ deploy = NoDeploy
  /\ \E pair \in SwapPairs, amountIn \in SwapAmounts, slippageInput \in SlippageInputs,
        sdkAvailable \in BOOLEAN :
       \E slippagePct \in {OrElse(Decimal(slippageInput, 1000), DefaultSlippage)},
          val \in {OrElse(parseFloat(amountIn), Zero)} :
         \E asked \in {DoubleGt(val, Zero)} :
          \E chain \in IF asked /\ sdkAvailable /\ pair[1] \in Tokens /\ pair[2] \in Tokens
                           /\ TokenHash(pair[1]) # 0 /\ TokenHash(pair[2]) # 0
                        THEN ChainAnswers ELSE {NoChainAnswer} :
            \E quote \in {getSwapQuote(pair[1], pair[2], amountIn, sdkAvailable, chain)} :
               /\ request' = [tokenIn |-> pair[1], tokenOut |-> pair[2],
                              amountIn |-> amountIn, sdkAvailable |-> sdkAvailable,
                              chain |-> chain]
               /\ currentSwapQuote' = IF asked THEN quote ELSE currentSwapQuote
               /\ display' = IF asked /\ quote.valid
                             THEN QuoteDisplay(quote, slippagePct)
                             ELSE FallbackDisplay(pair[1], pair[2], val, slippagePct)
               /\ deploy' = NoDeploy
               /\ UNCHANGED <<WalletGlobals, OutsideSwapPage>>

\* what the wallet, the node and the SDK may do to a deploy on its way: the
\* approval can fail, the SDK may refuse to build a U256 from a negative
\* number, the wallet can decline to sign
DeployFates(minimums) ==
  {"submitted", "approval failed", "signing declined"}
    \cup IF \E i \in DOMAIN minimums : minimums[i].neg THEN {"u256 refused"} ELSE {}

\* CasperService.executeSwap(window.currentSwapQuote, slippagePercent)
ExecuteSwap ==
  /\ currentSwapQuote # NullQuote
  /\ deploy = NoDeploy
  /\ \E slippage \in SlippagePercents :
    \E slippagePercent \in {Decimal(slippage, 1000)}, quote \in {currentSwapQuote} :
    \E amountOutMin \in {minimumAfterSlippage(quote.amountOutRaw, slippagePercent)} :
    LET thrown(error) ==
          [entryPoint |-> "swap_exact_tokens_for_tokens", status |-> "threw",
           error |-> error, slippagePercent |-> slippage,
           desired |-> <<>>, minimums |-> <<>>]
    IN /\ deploy' \in
            IF connectedAccount = "" \/ connectedWallet = ""
            THEN {thrown("Wallet not connected")}
            ELSE IF ~quote.valid THEN {thrown("Invalid quote")}
            ELSE IF quote.demo THEN {thrown("Token contracts not deployed")}
            ELSE IF amountOutMin.threw # "none" THEN {thrown(amountOutMin.threw)}
            ELSE {[entryPoint |-> "swap_exact_tokens_for_tokens",
                   status |-> IF fate = "submitted" THEN "submitted" ELSE "threw",
                   error |-> IF fate = "submitted" THEN "" ELSE fate,
                   slippagePercent |-> slippage,
                   desired |-> <<quote.amountInRaw>>,
                   minimums |-> IF fate = "approval failed" THEN <<>>
                                ELSE <<amountOutMin.value>>] :
                    fate \in DeployFates(<<amountOutMin.value>>)}
       /\ UNCHANGED <<request, currentSwapQuote, display>>
       /\ UNCHANGED <<WalletGlobals, OutsideSwapPage>>

\* CasperService.addLiquidity(tokenA, tokenB, amountA, amountB, slippagePercent)
AddLiquidity ==
  /\ display = NoDisplay
  /\ deploy = NoDeploy
  /\ \E tokenA \in {"CSPR", "ECTO"}, amountA \in LiquidityAmounts,
        amountB \in LiquidityAmounts, slippage \in SlippagePercents :
    \E tokenB \in {"USDC"}, slippagePercent \in {Decimal(slippage, 1000)} :
    \E amountADesired \in {parseTokenAmount(amountA, TokenDecimals(tokenA))},
       amountBDesired \in {parseTokenAmount(amountB, TokenDecimals(tokenB))} :
    \E amountAMin \in {minimumAfterSlippage(amountADesired, slippagePercent)},
       amountBMin \in {minimumAfterSlippage(amountBDesired, slippagePercent)} :
    LET thrown(error, minimums) ==
          [entryPoint |-> "add_liquidity", status |-> "threw", error |-> error,
           slippagePercent |-> slippage, desired |-> <<>>,
           minimums |-> minimums]
    IN /\ deploy' \in
            IF connectedAccount = "" \/ connectedWallet = ""
            THEN {thrown("Wallet not connected", <<>>)}
            ELSE IF TokenHash(tokenA) = 0 \/ TokenHash(tokenB) = 0
            THEN {thrown("Invalid tokens or token contracts not deployed", <<>>)}
            ELSE IF amountAMin.threw # "none"
            THEN {thrown(amountAMin.threw, <<>>)}
            ELSE {[entryPoint |-> "add_liquidity",
                   status |-> IF fate = "submitted" THEN "submitted" ELSE "threw",
                   error |-> IF fate = "submitted" THEN "" ELSE fate,
                   slippagePercent |-> slippage,
                   desired |-> <<amountADesired, amountBDesired>>,
                   minimums |-> <<amountAMin.value, amountBMin.value>>] :
                    fate \in DeployFates(<<amountAMin.value, amountBMin.value>>)}
       /\ UNCHANGED <<request, currentSwapQuote, display>>
       /\ UNCHANGED <<WalletGlobals, OutsideSwapPage>>

\* the page as loaded, with or without a wallet connected
InitSwapPage ==
  /\ QuoteCallsAtRest
  /\ SwapPageAtRest
  /\ ElsewhereAtRest
  /\ \/ WalletDisconnected
     \/ connectedWallet = "casperwallet" /\ connectedAccount = "0203ab"

\* a visit of the swap page: one quote is asked and shown, one deploy is built
NextSwapPage ==
  \/ UpdateOutputs
  \/ ExecuteSwap
  \/ AddLiquidity

SpecSwapPage == InitSwapPage /\ [][NextSwapPage]_vars

----------------------------------------------------------------------------
(* debounce(func, wait): the function returned keeps one timer; each call  *)
(* clears it and sets a new one, and the timer's callback calls func with  *)
(* the arguments of the call that set it.  Time is counted in              *)
(* milliseconds.  A timer runs when its delay has elapsed, before time     *)
(* moves on and before any event dispatched at that instant or later.      *)

DEBOUNCE_DELAY_CALC == 150

\* how far the clock moves in one step, when the clock stops, and how many
\* calls are followed
TimeStep == 50
MaxTime == 600
MaxCalls == 3

\* the argument of debouncedUpdateOutputs
DebouncedArgs == {"from", "to"}

\* clearTimeout(id)
clearTimeout(pending, id) == {t \in pending : t.id # id}

\* setTimeout(later, wait), the timer being given the identifier id
setTimeout(pending, id, wait, args) ==
  pending \cup {[id |-> id, due |-> now + wait, args |-> args]}

\* executedFunction without its clearTimeout
executedFunctionKeepsTimer(pending, id, wait, args) ==
  setTimeout(pending, id, wait, args)

\* executedFunction(...args): clearTimeout(timeout); timeout = setTimeout(later, wait)
executedFunction(pending, id, wait, args) ==
  setTimeout(clearTimeout(pending, timeout), id, wait, args)

TimerDue == \E t \in timers : t.due <= now

\* the instant of the next event of the clock: a step on, or the first timer due
NextInstant ==
  LET step == now + TimeStep
      dues == {t.due : t \in timers}
  IN IF \E d \in dues : d < step THEN CHOOSE d \in dues : \A e \in dues : d <= e
     ELSE step

\* an input event: debouncedUpdateOutputs(args)
DebouncedCall ==
  /\ ~TimerDue
  /\ Len(debounced) < MaxCalls
  /\ \E args \in DebouncedArgs :
       /\ timers' = executedFunction(timers, Len(debounced) + 1, DEBOUNCE_DELAY_CALC, args)
       /\ timeout' = Len(debounced) + 1
       /\ debounced' = Append(debounced, [at |-> now, args |-> args])
  /\ UNCHANGED <<now, invocations>>
  /\ UNCHANGED OutsideDebounce

\* later(): clearTimeout(timeout); func(...args)
TimerFires ==
  /\ \E t \in timers :
       /\ t.due <= now
       /\ timers' = clearTimeout(timers \ {t}, timeout)
       /\ invocations' = Append(invocations, [at |-> now, args |-> t.args])
  /\ UNCHANGED <<now, timeout, debounced>>
  /\ UNCHANGED OutsideDebounce

\* time passes
TimePasses ==
  /\ ~TimerDue
  /\ now < MaxTime
  /\ now' = NextInstant
  /\ UNCHANGED <<timers, timeout, debounced, invocations>>
  /\ UNCHANGED OutsideDebounce

InitDebounce ==
  /\ QuoteCallsAtRest
  /\ WalletDisconnected
  /\ SwapPageAtRest
  /\ ElsewhereAtRest

NextDebounce ==
  \/ DebouncedCall
  \/ TimerFires
  \/ TimePasses

SpecDebounce == InitDebounce /\ [][NextDebounce]_vars

----------------------------------------------------------------------------
(* initPriceTicker: the price is fetched on load and then at every expiry  *)
(* of an interval timer; a failed fetch counts up failureCount, and from    *)
(* PRICE_TICKER_MAX_FAILURES on the interval is lengthened and the timer    *)
(* set anew; a fetch that succeeds resets both.  Time is in milliseconds.   *)

\* the failures in a row that are followed, the fetches that may be awaited
\* at once, and how far the clock moves in one step
MaxFailureCount == 8
MaxInFlight == 2
TickerStep == 30000

\* Math.pow(2, n), for an integer n >= 0
RECURSIVE MathPow2(_)
MathPow2(n) == IF n <= 0 THEN 1 ELSE 2 * MathPow2(n - 1)

\* the backoff without its upper limit
backoffIntervalUncapped(failures) ==
  PRICE_TICKER_BASE_INTERVAL * MathPow2(failures - PRICE_TICKER_MAX_FAILURES)

\* Math.min(BASE_INTERVAL * Math.pow(2, failureCount - MAX_FAILURES), MAX_BACKOFF)
backoffInterval(failures) ==
  LET doubled == PRICE_TICKER_BASE_INTERVAL * MathPow2(failures - PRICE_TICKER_MAX_FAILURES)
  IN IF doubled < PRICE_TICKER_MAX_BACKOFF THEN doubled ELSE PRICE_TICKER_MAX_BACKOFF

\* resetInterval: clearInterval(intervalId); setInterval(fetchPrice, currentInterval)
resetInterval(period) == [period |-> period, elapsed |-> 0]

\* fetchPrice, the try block run to its end: the price is shown
FetchSucceeds ==
  /\ inFlight > 0
  /\ inFlight' = inFlight - 1
  /\ ticker' = [text |-> "CSPR $price", updated |-> TRUE,
                last |-> IF currentInterval # PRICE_TICKER_BASE_INTERVAL
                         THEN "recovered" ELSE "ok",
                streak |-> 0]
  /\ failureCount' = 0
  /\ IF currentInterval # PRICE_TICKER_BASE_INTERVAL
     THEN /\ currentInterval' = PRICE_TICKER_BASE_INTERVAL
          /\ intervalId' = resetInterval(PRICE_TICKER_BASE_INTERVAL)
     ELSE UNCHANGED <<currentInterval, intervalId>>
  /\ UNCHANGED OutsideTicker

\* fetchPrice, the catch block: the request timed out or failed, the answer
\* was not ok, or it held no price
FetchFails ==
  /\ inFlight > 0
  /\ failureCount < MaxFailureCount
  /\ inFlight' = inFlight - 1
  /\ failureCount' = failureCount + 1
  /\ IF failureCount + 1 >= PRICE_TICKER_MAX_FAILURES
     THEN /\ currentInterval' = backoffInterval(failureCount + 1)
          /\ intervalId' = resetInterval(backoffInterval(failureCount + 1))
     ELSE UNCHANGED <<currentInterval, intervalId>>
  /\ ticker' = [text |-> IF ticker.updated THEN ticker.text ELSE "CSPR $--.--",
                updated |-> ticker.updated, last |-> "failed",
                streak |-> ticker.streak + 1]
  /\ UNCHANGED OutsideTicker

\* the interval timer expires: fetchPrice is called
IntervalFires ==
  /\ intervalId # NoInterval
  /\ intervalId.elapsed = intervalId.period
  /\ inFlight < MaxInFlight
  /\ intervalId' = [intervalId EXCEPT !.elapsed = 0]
  /\ inFlight' = inFlight + 1
  /\ UNCHANGED <<failureCount, currentInterval, ticker>>
  /\ UNCHANGED OutsideTicker

\* time passes, up to the expiry of the interval timer
TickerTimePasses ==
  /\ intervalId # NoInterval
  /\ intervalId.elapsed < intervalId.period
  /\ intervalId' =
       [intervalId EXCEPT !.elapsed =
          IF intervalId.elapsed + TickerStep < intervalId.period
          THEN intervalId.elapsed + TickerStep ELSE intervalId.period]
  /\ UNCHANGED <<failureCount, currentInterval, inFlight, ticker>>
  /\ UNCHANGED OutsideTicker

\* initPriceTicker has run: the first fetch is awaited, the interval timer set
InitTicker ==
  /\ QuoteCallsAtRest
  /\ WalletDisconnected
  /\ SwapPageAtRest
  /\ DebounceAtRest
  /\ WalletPageAtRest
  /\ PagesAtRest
  /\ failureCount = 0
  /\ currentInterval = PRICE_TICKER_BASE_INTERVAL
  /\ intervalId = resetInterval(PRICE_TICKER_BASE_INTERVAL)
  /\ inFlight = 1
  /\ ticker = NoTickerText

NextTicker ==
  \/ FetchSucceeds
  \/ FetchFails
  \/ IntervalFires
  \/ TickerTimePasses

SpecTicker == InitTicker /\ [][NextTicker]_vars

----------------------------------------------------------------------------
(* The wallet connection: the connect button starts connectWalletHandler   *)
(* or, when a wallet is connected, disconnectWalletHandler; the connection  *)
(* is kept in window.connectedWallet / window.connectedAccount and in two   *)
(* localStorage keys, from which hydrateWalletConnection restores it on     *)
(* every page load.  What a wallet provider answers, and whether it answers *)
(* at all, is not in the program's hands.                                   *)

\* the page loads that are followed
MaxLoads == 2

WalletNames == {"casperwallet", "caspersigner", "csprcloud"}
Account == "0203ab"

\* what localStorage may hold when a page is opened
StoredConnections ==
  {EmptyStorage, [wallet |-> "casperwallet", account |-> Account],
   [wallet |-> "casperwallet", account |-> ""]}

\* the button texts
ConnectedText == "Connected: account"
ConnectingText == "Connecting..."
ConnectText == "Connect Wallet"

\* the wallet state the handlers read and write
WalletPage(wallet, account, storage, button) ==
  [connectedWallet |-> wallet, connectedAccount |-> account,
   localStorage |-> storage, connectBtn |-> button]

\* hydrateWalletConnection, on the page as served
hydrateWalletConnection(storage) ==
  IF storage.wallet # "" /\ storage.account # ""
  THEN WalletPage(storage.wallet, storage.account, storage,
                  [textContent |-> ConnectedText, disabled |-> FALSE, connected |-> TRUE])
  ELSE WalletPage("", "", storage, ButtonAsServed)

\* disconnectWalletHandler leaving localStorage as it is
disconnectKeepsStorage(page) ==
  WalletPage("", "", page.localStorage,
             [textContent |-> ConnectText, disabled |-> FALSE, connected |-> FALSE])

disconnectWalletHandler(page) ==
  WalletPage("", "", EmptyStorage,
             [textContent |-> ConnectText, disabled |-> FALSE, connected |-> FALSE])

\* the catch block of connectWalletHandler, for an error with a message
ButtonReset == [textContent |-> ConnectText, disabled |-> FALSE, connected |-> FALSE]

\* connectWalletHandler once connectedAccount is known
accountConnected(selectedWallet, account) ==
  WalletPage(selectedWallet, account, [wallet |-> selectedWallet, account |-> account],
             [textContent |-> ConnectedText, disabled |-> FALSE, connected |-> TRUE])

\* what the selected provider may answer: an account, an empty result, an
\* error, or a rejection with a value that has no message
\* (CSPR.CLOUD's empty account is turned into an error by the handler)
ProviderAnswers(selectedWallet) ==
  {"account", "error", "rejection without message"}
    \cup IF selectedWallet = "csprcloud" THEN {} ELSE {"empty"}

Finished(selectedWallet, timer, outcome) ==
  [phase |-> "finished", selectedWallet |-> selectedWallet, timer |-> timer,
   result |-> outcome, late |-> "none"]

SetWalletPage(page) ==
  /\ connectedWallet' = page.connectedWallet
  /\ connectedAccount' = page.connectedAccount
  /\ localStorage' = page.localStorage
  /\ connectBtn' = page.connectBtn

\* a page is opened: the window is new, the button as served, an attempt under
\* way is gone with the old page; then hydrateWalletConnection runs
PageLoad ==
  /\ walletLog.loads < MaxLoads
  /\ SetWalletPage(hydrateWalletConnection(localStorage))
  /\ attempt' = NoAttempt
  /\ providers' \in SUBSET WalletNames
  /\ walletLog' = [walletLog EXCEPT !.last = "load", !.loads = @ + 1]
  /\ UNCHANGED OutsideWallet

\* click on the connect button without a connection: connectWalletHandler up
\* to its await, or to its end when no wallet is detected or the prompt is
\* cancelled
ConnectStart ==
  /\ ~connectBtn.disabled
  /\ ~(connectedWallet # "" /\ connectedAccount # "")
  /\ \/ /\ providers = {}
        /\ attempt' = Finished("", "none", "NO_WALLET_DETECTED")
        /\ connectBtn' = ButtonReset
     \/ /\ Cardinality(providers) > 1
        /\ attempt' = Finished("", "none", "USER_CANCELLED")
        /\ connectBtn' = ButtonReset
     \/ \E selectedWallet \in providers :
          /\ attempt' = [phase |-> "awaiting", selectedWallet |-> selectedWallet,
                         timer |-> "armed", result |-> "none", late |-> "none"]
          /\ connectBtn' = [connectBtn EXCEPT !.textContent = ConnectingText,
                                              !.disabled = TRUE]
  /\ walletLog' = [walletLog EXCEPT !.last = "connect"]
  /\ UNCHANGED <<connectedWallet, connectedAccount, localStorage, providers>>
  /\ UNCHANGED OutsideWallet

\* the provider answers before the timeout: connectWalletHandler from its
\* await to its end
ProviderAnswer ==
  /\ attempt.phase = "awaiting"
  /\ \E answer \in ProviderAnswers(attempt.selectedWallet) :
       /\ attempt' = Finished(attempt.selectedWallet, attempt.timer, answer)
       /\ CASE answer = "account" ->
                 /\ SetWalletPage(accountConnected(attempt.selectedWallet, Account))
                 /\ walletLog' = [walletLog EXCEPT !.last = "connect",
                                                   !.sinceDisconnect = FALSE]
            [] answer = "error" ->
                 /\ connectBtn' = ButtonReset
                 /\ UNCHANGED <<connectedWallet, connectedAccount, localStorage, walletLog>>
            [] OTHER ->
                 \* an empty result skips the update of the page; a rejection
                 \* value without a message makes the catch block throw at
                 \* err.message.includes before it resets the button
                 UNCHANGED <<connectedWallet, connectedAccount, localStorage,
                             connectBtn, walletLog>>
  /\ UNCHANGED providers
  /\ UNCHANGED OutsideWallet

\* WALLET_CONNECTION_TIMEOUT has elapsed: the race is lost to
\* CONNECTION_TIMEOUT if the provider has not answered
ConnectionTimeout ==
  /\ attempt.timer = "armed"
  /\ IF attempt.phase = "awaiting"
     THEN /\ attempt' = Finished(attempt.selectedWallet, "fired", "CONNECTION_TIMEOUT")
          /\ connectBtn' = ButtonReset
     ELSE /\ attempt' = [attempt EXCEPT !.timer = "fired"]
          /\ UNCHANGED connectBtn
  /\ UNCHANGED <<connectedWallet, connectedAccount, localStorage, providers, walletLog>>
  /\ UNCHANGED OutsideWallet

lateAnswerConnects(page, selectedWallet, answer) ==
  IF answer = "account" THEN accountConnected(selectedWallet, Account) ELSE page

\* the provider's promise settles after the race was lost: the async
\* function assigns the local connectedAccount and nothing else
lateAnswer(page, selectedWallet, answer) == page

\* the provider answers after CONNECTION_TIMEOUT
LateProviderAnswer ==
  /\ attempt.phase = "finished"
  /\ attempt.result = "CONNECTION_TIMEOUT"
  /\ attempt.late = "none"
  /\ \E answer \in ProviderAnswers(attempt.selectedWallet) :
       /\ attempt' = [attempt EXCEPT !.late = answer]
       /\ SetWalletPage(lateAnswer(
            WalletPage(connectedWallet, connectedAccount, localStorage, connectBtn),
            attempt.selectedWallet, answer))
  /\ UNCHANGED <<providers, walletLog>>
  /\ UNCHANGED OutsideWallet

\* click on the connect button with a connection: disconnectWalletHandler
Disconnect ==
  /\ ~connectBtn.disabled
  /\ connectedWallet # "" /\ connectedAccount # ""
  /\ SetWalletPage(disconnectWalletHandler(
       WalletPage(connectedWallet, connectedAccount, localStorage, connectBtn)))
  /\ walletLog' = [walletLog EXCEPT !.last = "disconnect", !.sinceDisconnect = TRUE]
  /\ UNCHANGED <<attempt, providers>>
  /\ UNCHANGED OutsideWallet

\* a page just loaded, whatever an earlier visit left in localStorage
InitWallet ==
  /\ QuoteCallsAtRest
  /\ SwapPageAtRest
  /\ DebounceAtRest
  /\ TickerAtRest
  /\ PagesAtRest
  /\ \E storage \in StoredConnections :
       /\ connectedWallet = hydrateWalletConnection(storage).connectedWallet
       /\ connectedAccount = hydrateWalletConnection(storage).connectedAccount
       /\ localStorage = storage
       /\ connectBtn = hydrateWalletConnection(storage).connectBtn
  /\ attempt = NoAttempt
  /\ providers \in SUBSET WalletNames
  /\ walletLog = NoWalletLog

NextWallet ==
  \/ PageLoad
  \/ ConnectStart
  \/ ProviderAnswer
  \/ ConnectionTimeout
  \/ LateProviderAnswer
  \/ Disconnect

SpecWallet == InitWallet /\ [][NextWallet]_vars

----------------------------------------------------------------------------
(* The colour theme: hydrateTheme runs on every page load and toggleTheme  *)
(* on a click of the theme button; setTheme applies a theme to the         *)
(* document and stores it under 'ectoplasm-theme'.  "" stands for a key    *)
(* that is not stored and for an attribute that is not set.  Whether the   *)
(* system prefers a light colour scheme is what the browser answers to     *)
(* matchMedia('(prefers-color-scheme: light)').                            *)

MaxThemeEvents == 4
Themes == {"light", "dark"}

\* setTheme(theme): the data-theme attribute of the document and the stored theme
setTheme(name) == [dataTheme |-> name, stored |-> name]

\* hydrateTheme() of script.js, called by the DOMContentLoaded listener
hydrateTheme(stored) == setTheme(IF stored # "" THEN stored ELSE "dark")

\* hydrateTheme() of unnamed/part_004, which no listener calls
hydrateThemeWithPreference(stored, prefersLight) ==
  setTheme(IF stored # "" THEN stored ELSE IF prefersLight THEN "light" ELSE "dark")

toggleTheme(dataTheme) == setTheme(IF dataTheme # "light" THEN "light" ELSE "dark")

ThemeEvent(op, found, prefersLight, applied) ==
  [op |-> op, found |-> found, prefersLight |-> prefersLight, applied |-> applied]

Themed(set, event) ==
  [stored |-> set.stored, dataTheme |-> set.dataTheme, log |-> Append(theme.log, event)]

\* a page is loaded: the document is new, the storage is the one left behind
ThemePageLoad ==
  /\ Len(theme.log) < MaxThemeEvents
  /\ \E prefersLight \in BOOLEAN :
       theme' = Themed(hydrateTheme(theme.stored),
                       ThemeEvent("hydrateTheme", theme.stored, prefersLight,
                                  hydrateTheme(theme.stored).dataTheme))
  /\ UNCHANGED OutsideTheme

\* a click on the theme button of a loaded page
ThemeToggle ==
  /\ Len(theme.log) < MaxThemeEvents
  /\ theme.log # <<>>
  /\ theme' = Themed(toggleTheme(theme.dataTheme),
                     ThemeEvent("toggleTheme", theme.stored, FALSE,
                                toggleTheme(theme.dataTheme).dataTheme))
  /\ UNCHANGED OutsideTheme

InitTheme ==
  /\ QuoteCallsAtRest
  /\ WalletDisconnected
  /\ SwapPageAtRest
  /\ DebounceAtRest
  /\ TickerAtRest
  /\ WalletPageAtRest
  /\ SwapAtRest
  /\ WaitAtRest
  /\ DashboardAtRest
  /\ QuoteRequestsAtRest
  /\ \E stored \in Themes \cup {""} :
       theme = [stored |-> stored, dataTheme |-> "", log |-> <<>>]

NextTheme == ThemePageLoad \/ ThemeToggle

SpecTheme == InitTheme /\ [][NextTheme]_vars

----------------------------------------------------------------------------
(* demoSwap and CasperService.executeSwap, step by step: the guards, the   *)
(* allowance check, the approval deploy and the wait for it, the swap      *)
(* deploy.  swap.puts lists the calls of client.putDeploy of the run.      *)
(* What the node and the wallet answer is chosen freely.                   *)

MaxSwapRuns == 2
MaxAmountInRaw == 2

NoQuote == [set |-> FALSE, valid |-> FALSE, demo |-> FALSE, amountInRaw |-> 0]
\* the quotes getSwapQuote returns: invalid, demo, or live with an amount
ReturnedQuotes ==
  {[set |-> TRUE, valid |-> FALSE, demo |-> FALSE, amountInRaw |-> 0]}
    \cup {[set |-> TRUE, valid |-> TRUE, demo |-> d, amountInRaw |-> a] :
            d \in BOOLEAN, a \in 1..MaxAmountInRaw}

\* the results of waitForDeploy
Success == [success |-> TRUE, error |-> ""]
Failure(error) == [success |-> FALSE, error |-> error]
WaitResults == {Success, Failure("Transaction failed"), Failure("Transaction timed out")}

\* the checks of demoSwap before it calls executeSwap: the alert shown, "" if none
demoSwapAlert(account, wallet, serviceDefined, quote) ==
  IF account = "" \/ wallet = "" THEN "Please connect your wallet first"
  ELSE IF ~serviceDefined THEN "CasperService not loaded"
  ELSE IF ~quote.set \/ ~quote.valid THEN "Please enter a valid swap amount first"
  ELSE IF quote.demo THEN "Demo mode"
  ELSE ""

executeSwapRunsDemoQuotes(sdkAvailable, account, wallet, quote) ==
  IF ~sdkAvailable THEN "CasperService not initialized"
  ELSE IF account = "" \/ wallet = "" THEN "Wallet not connected"
  ELSE IF ~quote.valid THEN "Invalid quote"
  ELSE ""

\* the checks executeSwap starts with: the error thrown, "" if none
executeSwapThrows(sdkAvailable, account, wallet, quote) ==
  IF ~sdkAvailable THEN "CasperService not initialized"
  ELSE IF account = "" \/ wallet = "" THEN "Wallet not connected"
  ELSE IF ~quote.valid THEN "Invalid quote"
  ELSE IF quote.demo THEN "Cannot execute swap: Token contracts not deployed"
  ELSE ""

\* checkAllowance: read is the allowance stored, -1 when the read fails
AllowanceReads == -1..MaxAmountInRaw
checkAllowance(tokenHash, read, amount) ==
  IF tokenHash = "" THEN FALSE
  ELSE IF read < 0 THEN FALSE
  ELSE read >= amount

approvalIgnored(approvalResult) == [pc |-> "swap", outcome |-> "none", error |-> ""]

\* executeSwap after `await this.waitForDeploy(approvalHash)`
approvalAwaited(approvalResult) ==
  IF ~approvalResult.success
  THEN [pc |-> "done", outcome |-> "threw", error |-> "Approval failed"]
  ELSE [pc |-> "swap", outcome |-> "none", error |-> ""]

Put(entryPoint, accepted) == [entryPoint |-> entryPoint, accepted |-> accepted]

SwapRun(caller, quote, connected, runs) ==
  [pc |-> "done", caller |-> caller, quote |-> quote, connected |-> connected,
   called |-> FALSE, hasAllowance |-> "unknown", approval |-> "none",
   puts |-> <<>>, outcome |-> "none", error |-> "", runs |-> runs]

Thrown(run, error) ==
  [run EXCEPT !.pc = "done", !.outcome = "threw", !.error = error]

\* executeSwap(quote, slippage) up to its first await
executeSwapStart(run, sdkAvailable) ==
  IF executeSwapThrows(sdkAvailable, connectedAccount, connectedWallet, run.quote) # ""
  THEN Thrown([run EXCEPT !.called = TRUE],
              executeSwapThrows(sdkAvailable, connectedAccount, connectedWallet,
                                run.quote))
  ELSE [run EXCEPT !.called = TRUE, !.pc = "checkAllowance"]

SwapIdle == swap.pc \in {"idle", "done"}
Connected == connectedAccount # "" /\ connectedWallet # ""

\* a click on the swap button
DemoSwapClick ==
  /\ SwapIdle
  /\ swap.runs < MaxSwapRuns
  /\ \E serviceDefined \in BOOLEAN, sdkAvailable \in BOOLEAN,
        quote \in ReturnedQuotes \cup {NoQuote} :
       swap' =
         IF demoSwapAlert(connectedAccount, connectedWallet, serviceDefined, quote) # ""
         THEN [SwapRun("demoSwap", quote, Connected, swap.runs + 1)
                 EXCEPT !.outcome = "alert",
                        !.error = demoSwapAlert(connectedAccount, connectedWallet,
                                                serviceDefined, quote)]
         ELSE executeSwapStart(SwapRun("demoSwap", quote, Connected, swap.runs + 1),
                               sdkAvailable)
  /\ UNCHANGED <<WalletGlobals, OutsideSwap>>

\* CasperService.executeSwap called with a quote by any other caller
ExecuteSwapCall ==
  /\ SwapIdle
  /\ swap.runs < MaxSwapRuns
  /\ \E sdkAvailable \in BOOLEAN, quote \in ReturnedQuotes :
       swap' = executeSwapStart(SwapRun("caller", quote, Connected, swap.runs + 1),
                                sdkAvailable)
  /\ UNCHANGED <<WalletGlobals, OutsideSwap>>

\* checkAllowance(quote.path[0], account, quote.amountInRaw) settles
AllowanceChecked ==
  /\ swap.pc = "checkAllowance"
  /\ \E read \in AllowanceReads :
       swap' = IF checkAllowance("hash-tokenIn", read, swap.quote.amountInRaw)
               THEN [swap EXCEPT !.pc = "swap", !.hasAllowance = "yes"]
               ELSE [swap EXCEPT !.pc = "approveToken", !.hasAllowance = "no"]
  /\ UNCHANGED <<WalletGlobals, OutsideSwap>>

\* what signing and submitting a deploy may come to
SubmitFates ==
  IF connectedWallet = "" THEN {"Unsupported wallet"}
  ELSE {"put", "signing declined", "putDeploy failed"}

\* approveToken(quote.path[0], quote.amountInRaw) settles
ApproveToken ==
  /\ swap.pc = "approveToken"
  /\ swap' \in
       IF ~Connected THEN {Thrown(swap, "Wallet not connected")}
       ELSE {IF fate = "put"
             THEN [swap EXCEPT !.pc = "waitForDeploy",
                               !.puts = Append(@, Put("approve", TRUE))]
             ELSE IF fate = "putDeploy failed"
             THEN Thrown([swap EXCEPT !.puts = Append(@, Put("approve", FALSE))], fate)
             ELSE Thrown(swap, fate) : fate \in SubmitFates}
  /\ UNCHANGED <<WalletGlobals, OutsideSwap>>

\* waitForDeploy(approvalHash) settles
ApprovalAwaited ==
  /\ swap.pc = "waitForDeploy"
  /\ \E approvalResult \in WaitResults :
       swap' = [swap EXCEPT
                  !.approval = IF approvalResult.success THEN "success"
                               ELSE approvalResult.error,
                  !.pc = approvalAwaited(approvalResult).pc,
                  !.outcome = approvalAwaited(approvalResult).outcome,
                  !.error = approvalAwaited(approvalResult).error]
  /\ UNCHANGED <<WalletGlobals, OutsideSwap>>

\* the swap deploy is built, signed and submitted
SubmitSwap ==
  /\ swap.pc = "swap"
  /\ swap' \in
       {IF fate = "put"
        THEN [swap EXCEPT !.pc = "done", !.outcome = "returned",
                          !.puts = Append(@, Put("swap_exact_tokens_for_tokens", TRUE))]
        ELSE IF fate = "putDeploy failed"
        THEN Thrown([swap EXCEPT
                       !.puts = Append(@, Put("swap_exact_tokens_for_tokens", FALSE))],
                    fate)
        ELSE Thrown(swap, fate) : fate \in SubmitFates \cup {"u256 refused"}}
  /\ UNCHANGED <<WalletGlobals, OutsideSwap>>

\* the wallet is disconnected while executeSwap awaits
SwapWalletDisconnect ==
  /\ ~SwapIdle
  /\ Connected
  /\ connectedWallet' = ""
  /\ connectedAccount' = ""
  /\ UNCHANGED <<swap, OutsideSwap>>

InitSwap ==
  /\ QuoteCallsAtRest
  /\ SwapPageAtRest
  /\ DebounceAtRest
  /\ TickerAtRest
  /\ WalletPageAtRest
  /\ ThemeAtRest
  /\ WaitAtRest
  /\ DashboardAtRest
  /\ QuoteRequestsAtRest
  /\ \E wallet \in WalletNames \cup {""} :
       /\ connectedWallet = wallet
       /\ connectedAccount = IF wallet = "" THEN "" ELSE Account
  /\ swap = NoSwap

NextSwap ==
  \/ DemoSwapClick
  \/ ExecuteSwapCall
  \/ AllowanceChecked
  \/ ApproveToken
  \/ ApprovalAwaited
  \/ SubmitSwap
  \/ SwapWalletDisconnect

SpecSwap == InitSwap /\ [][NextSwap]_vars

----------------------------------------------------------------------------
(* CasperService.waitForDeploy(deployHash, timeoutMs): getDeployInfo is    *)
(* polled until it reports an execution result or the time is up.  The     *)
(* time is looked at only at the head of the loop, between two polls.      *)
(* Times are in milliseconds, deployWait.elapsed is Date.now() - startTime *)
(* at the last point where the function ran.                               *)

DefaultTimeoutMs == 120000
pollInterval == 2000
MaxPollTime == 3000
PollTimes == {0, 1000, MaxPollTime}

\* what getDeployInfo may come to: it rejects, it resolves with no
\* execution result yet, with an execution result of an unexpected shape,
\* with a successful one or with a failed one
PollAnswers ==
  {[kind |-> k, error_message |-> ""] :
     k \in {"rejected", "no execution result", "no result field", "Success"}}
    \cup {[kind |-> "Failure", error_message |-> m] : m \in {"", "Out of gas error"}}

NoPoll == [kind |-> "none", error_message |-> ""]

pollRethrows(answer) ==
  IF answer.kind = "Success" THEN [pc |-> "returned", result |-> Success]
  ELSE IF answer.kind = "Failure"
  THEN [pc |-> "returned",
        result |-> Failure(IF answer.error_message # "" THEN answer.error_message
                           ELSE "Transaction failed")]
  ELSE IF answer.kind = "no execution result"
  THEN [pc |-> "sleeping", result |-> Failure("")]
  ELSE [pc |-> "threw", result |-> Failure("")]

\* the body of the loop once getDeployInfo has settled
polled(answer) ==
  IF answer.kind = "Success" THEN [pc |-> "returned", result |-> Success]
  ELSE IF answer.kind = "Failure"
  THEN [pc |-> "returned",
        result |-> Failure(IF answer.error_message # "" THEN answer.error_message
                           ELSE "Transaction failed")]
  ELSE [pc |-> "sleeping", result |-> Failure("")]

\* the head of the loop
loopHead(elapsed, timeoutMs) ==
  IF elapsed < timeoutMs THEN [pc |-> "polling", result |-> Failure("")]
  ELSE [pc |-> "returned", result |-> Failure("Transaction timed out")]

Waiting(pc, elapsed, timeoutMs, last, swallowed, outcome) ==
  [pc |-> pc, elapsed |-> elapsed, timeoutMs |-> timeoutMs, last |-> last,
   swallowed |-> swallowed, result |-> outcome]

WaitForDeployCall ==
  /\ deployWait.pc = "idle"
  /\ \E timeoutMs \in {DefaultTimeoutMs, 2 * pollInterval} :
       deployWait' = Waiting(loopHead(0, timeoutMs).pc, 0, timeoutMs, NoPoll, FALSE,
                             loopHead(0, timeoutMs).result)
  /\ UNCHANGED OutsideWait

\* the promise of getDeployInfo settles
PollSettles ==
  /\ deployWait.pc = "polling"
  /\ \E answer \in PollAnswers, took \in PollTimes :
       deployWait' =
         Waiting(polled(answer).pc, deployWait.elapsed + took, deployWait.timeoutMs,
                 answer,
                 deployWait.swallowed \/ answer.kind \in {"rejected", "no result field"},
                 polled(answer).result)
  /\ UNCHANGED OutsideWait

\* the timer of pollInterval fires, on time or late
SleepEnds ==
  /\ deployWait.pc = "sleeping"
  /\ \E late \in {0, 1000} :
       deployWait' =
         Waiting(loopHead(deployWait.elapsed + pollInterval + late,
                          deployWait.timeoutMs).pc,
                 deployWait.elapsed + pollInterval + late, deployWait.timeoutMs,
                 deployWait.last, deployWait.swallowed,
                 loopHead(deployWait.elapsed + pollInterval + late,
                          deployWait.timeoutMs).result)
  /\ UNCHANGED OutsideWait

InitWait ==
  /\ QuoteCallsAtRest
  /\ WalletDisconnected
  /\ SwapPageAtRest
  /\ DebounceAtRest
  /\ TickerAtRest
  /\ WalletPageAtRest
  /\ ThemeAtRest
  /\ SwapAtRest
  /\ WaitAtRest
  /\ DashboardAtRest
  /\ QuoteRequestsAtRest

NextWait == WaitForDeployCall \/ PollSettles \/ SleepEnds

\* every promise awaited settles: getDeployInfo resolves or rejects, the
\* timer fires
SpecWait == InitWait /\ [][NextWait]_vars /\ WF_vars(NextWait)

----------------------------------------------------------------------------
(* Overlapping runs of updateOutputs: each run reads the amount typed,     *)
(* awaits getSwapQuote and then writes window.currentSwapQuote and the     *)
(* output field.  The runs carry no sequence number and none is cancelled, *)
(* and the quotes, which come from the network, arrive in any order.       *)

MaxQuoteRequests == 3
TypedAmounts == SwapAmounts \ {AmountText(0, 0)}

\* the quote CasperService.getSwapQuote gives for an amount of ECTO in USDC,
\* from the reserves read on the chain
PairOnChain == ChainAnswer("found", <<1000>>, <<10000>>)
PageQuote(amountIn) == getSwapQuote("ECTO", "USDC", amountIn, TRUE, PairOnChain)

\* an amount is typed, or a token chosen with an amount in the field:
\* updateOutputs('from') up to `await CasperService.getSwapQuote(...)`
QuoteRequested ==
  /\ quoteRequests.issued < MaxQuoteRequests
  /\ \E amountIn \in TypedAmounts :
       quoteRequests' =
         [input |-> amountIn,
          pending |-> quoteRequests.pending
                        \cup {[id |-> quoteRequests.issued + 1, amountIn |-> amountIn]},
          issued |-> quoteRequests.issued + 1]
  /\ UNCHANGED <<currentSwapQuote, display>>
  /\ UNCHANGED OutsideQuoteRequests

\* a quote arrives: getSwapQuote sets window.currentSwapQuote, updateOutputs
\* writes the output field and the details
QuoteArrives ==
  /\ \E r \in quoteRequests.pending :
       /\ quoteRequests' = [quoteRequests EXCEPT !.pending = @ \ {r}]
       /\ currentSwapQuote' = PageQuote(r.amountIn)
       /\ display' = IF PageQuote(r.amountIn).valid
                     THEN QuoteDisplay(PageQuote(r.amountIn), DefaultSlippage)
                     ELSE FallbackDisplay("ECTO", "USDC",
                                          OrElse(parseFloat(r.amountIn), Zero),
                                          DefaultSlippage)
  /\ UNCHANGED OutsideQuoteRequests

InitQuoteRequests ==
  /\ QuoteCallsAtRest
  /\ WalletDisconnected
  /\ SwapPageAtRest
  /\ DebounceAtRest
  /\ TickerAtRest
  /\ WalletPageAtRest
  /\ ThemeAtRest
  /\ SwapAtRest
  /\ WaitAtRest
  /\ DashboardAtRest
  /\ QuoteRequestsAtRest

NextQuoteRequests == QuoteRequested \/ QuoteArrives

SpecQuoteRequests == InitQuoteRequests /\ [][NextQuoteRequests]_vars

----------------------------------------------------------------------------
(* The dashboard: DashboardState keeps the user's progress in localStorage *)
(* under 'ectoplasm-dashboard-state'.  Every operation starts with get(),  *)
(* which resets the daily tasks by the date of the last check-in and       *)
(* recomputes the completed quests and missions from the metrics, and ends *)
(* with save().  Dates are counted in days, 0 standing for null; arrays    *)
(* that are only tested for membership are sets; 'Pair #n' is n.           *)

MaxDashboardOps == 3
MaxDay == 4
FirstDay == MaxDay - 1

QuestIds == {"quest-0", "quest-1", "quest-2"}
MissionIds ==
  {"mission-0", "mission-1", "mission-2", "mission-3", "mission-4", "mission-5"}
RewardIds == {"reward-0", "reward-1", "reward-2"}

\* DASHBOARD_DATA
TaskXp(taskIndex) ==
  CASE taskIndex = 0 -> 40 [] taskIndex = 1 -> 120 [] taskIndex = 2 -> 200
    [] taskIndex = 3 -> 90 [] taskIndex = 4 -> 60 [] taskIndex = 5 -> 140
BonusXp(id) ==
  CASE id = "quest-0" -> 200 [] id = "quest-1" -> 150 [] id = "quest-2" -> 180
    [] id = "mission-0" -> 120 [] id = "mission-1" -> 350 [] id = "mission-2" -> 280
    [] id = "mission-3" -> 320 [] id = "mission-4" -> 260 [] id = "mission-5" -> 220
RewardCost(id) ==
  CASE id = "reward-0" -> 400 [] id = "reward-1" -> 900 [] id = "reward-2" -> 700

defaultSwapVolume == 2500

getDefaultState ==
  [streak |-> 0, xp |-> 0, lastCheckIn |-> 0, completedTasks |-> {},
   completedQuests |-> {}, completedMissions |-> {}, redeemedRewards |-> {},
   metrics |-> [swaps |-> 0, swapVolume |-> 0, liquidityDays |-> {},
                liquidityActions |-> 0, governanceVotes |-> 0, comboRuns |-> 0,
                rewardClaims |-> 0, rewardsRedeemed |-> 0, uniquePairs |-> <<>>,
                checkIns |-> 0]]

\* uniqueList([...list, item])
uniqueAppend(list, item) ==
  IF \E i \in DOMAIN list : list[i] = item THEN list ELSE Append(list, item)

\* getConsecutiveDays: the days in a row, back from today, that are in days
getConsecutiveDays(days, today) ==
  CHOOSE k \in 0..today :
    /\ \A i \in 0..(k - 1) : (today - i) \in days
    /\ (today - k) \notin days

\* the quests whose progress, computed from the metrics, is at least 100
questsAtHundred(state, today) ==
  {id \in QuestIds :
     CASE id = "quest-0" -> state.metrics.swaps >= 5
       [] id = "quest-1" -> getConsecutiveDays(state.metrics.liquidityDays, today) >= 3
       [] id = "quest-2" -> Len(state.metrics.uniquePairs) >= 10}

missionsAtHundred(state, today) ==
  {id \in MissionIds :
     CASE id = "mission-0" -> state.metrics.swaps > 0
       [] id = "mission-1" -> state.metrics.swapVolume >= 10000
       [] id = "mission-2" -> state.streak >= 7
       [] id = "mission-3" -> getConsecutiveDays(state.metrics.liquidityDays, today) >= 3
       [] id = "mission-4" -> state.metrics.comboRuns >= 3
       [] id = "mission-5" -> state.metrics.rewardsRedeemed > 0}

RECURSIVE SumBonusXp(_)
SumBonusXp(ids) ==
  IF ids = {} THEN 0
  ELSE LET id == CHOOSE id \in ids : TRUE
       IN BonusXp(id) + SumBonusXp(ids \ {id})

\* the quests and missions that recalculateProgress finds newly completed
newlyCompleted(state, today) ==
  (questsAtHundred(state, today) \ state.completedQuests)
    \cup (missionsAtHundred(state, today) \ state.completedMissions)

recalculateProgress(state, today, awardXP) ==
  [state EXCEPT
     !.completedQuests = questsAtHundred(state, today),
     !.completedMissions = missionsAtHundred(state, today),
     !.xp = IF awardXP THEN @ + SumBonusXp(newlyCompleted(state, today)) ELSE @]

Max0(n) == IF n < 0 THEN 0 ELSE n

applyTaskEffects(state, taskIndex, direction, today) ==
  CASE taskIndex = 0 ->
         IF direction > 0
         THEN [state EXCEPT !.streak = @ + 1, !.lastCheckIn = today,
                            !.metrics.checkIns = Max0(@ + 1)]
         ELSE [state EXCEPT !.streak = Max0(@ - 1),
                            !.metrics.checkIns = Max0(@ - 1),
                            !.lastCheckIn = IF Max0(state.streak - 1) = 0 THEN 0 ELSE @]
    [] taskIndex = 1 ->
         [state EXCEPT
            !.metrics.swaps = Max0(@ + direction),
            !.metrics.swapVolume = Max0(@ + direction * defaultSwapVolume),
            !.metrics.uniquePairs =
              IF direction > 0 THEN uniqueAppend(@, Len(@) + 1)
              ELSE IF Len(@) > 0 THEN SubSeq(@, 1, Len(@) - 1) ELSE @]
    [] taskIndex = 2 ->
         [state EXCEPT
            !.metrics.liquidityDays =
              IF direction > 0 THEN @ \cup {today} ELSE @ \ {today},
            !.metrics.liquidityActions = Max0(@ + direction)]
    [] taskIndex = 3 -> [state EXCEPT !.metrics.governanceVotes = Max0(@ + direction)]
    [] taskIndex = 4 -> [state EXCEPT !.metrics.rewardClaims = Max0(@ + direction)]
    [] taskIndex = 5 -> [state EXCEPT !.metrics.comboRuns = Max0(@ + direction)]
    [] OTHER -> state

\* the daily reset of get()
dailyReset(state, today) ==
  IF state.lastCheckIn = 0 THEN state
  ELSE IF state.lastCheckIn >= today THEN state
  ELSE IF state.lastCheckIn >= today - 1 THEN [state EXCEPT !.completedTasks = {}]
  ELSE [state EXCEPT !.streak = 0, !.completedTasks = {}]

\* DashboardState.get()
get(stored, today) == recalculateProgress(dailyReset(stored, today), today, FALSE)

\* what an operation comes to: the state it leaves in localStorage, whether
\* it took effect, and the quest and mission bonuses it added to the XP
Done(state, success, awarded) ==
  [state |-> state, success |-> success, awarded |-> awarded]

Recalculated(state, today) ==
  Done(recalculateProgress(state, today, TRUE), TRUE, newlyCompleted(state, today))

completeTaskOf(state, stored, taskIndex, xpReward, today) ==
  IF taskIndex \notin state.completedTasks
  THEN Recalculated(
         applyTaskEffects([state EXCEPT !.completedTasks = @ \cup {taskIndex},
                                        !.xp = @ + xpReward],
                          taskIndex, 1, today), today)
  ELSE Done(stored, FALSE, {})

completeTask(stored, taskIndex, xpReward, today) ==
  completeTaskOf(get(stored, today), stored, taskIndex, xpReward, today)

uncompleteTaskOf(state, stored, taskIndex, xpReward, today) ==
  IF taskIndex \in state.completedTasks
  THEN Done(recalculateProgress(
              applyTaskEffects([state EXCEPT !.completedTasks = @ \ {taskIndex},
                                             !.xp = Max0(@ - xpReward)],
                               taskIndex, -1, today), today, FALSE),
            TRUE, {})
  ELSE Done(stored, FALSE, {})

uncompleteTask(stored, taskIndex, xpReward, today) ==
  uncompleteTaskOf(get(stored, today), stored, taskIndex, xpReward, today)

ActionTypes == {"swap", "liquidity", "pair", "combo", "redeem"}

recordActionOf(state, actionType, today) ==
  CASE actionType = "swap" ->
         [state EXCEPT !.metrics.swaps = @ + 1,
                       !.metrics.swapVolume = Max0(@ + defaultSwapVolume),
                       !.metrics.uniquePairs = uniqueAppend(@, state.metrics.swaps + 1)]
    [] actionType = "liquidity" ->
         [state EXCEPT !.metrics.liquidityActions = @ + 1,
                       !.metrics.liquidityDays = @ \cup {today}]
    [] actionType = "pair" ->
         [state EXCEPT !.metrics.uniquePairs = uniqueAppend(@, Len(@) + 1),
                       !.metrics.swaps = @ + 1,
                       !.metrics.swapVolume = @ + defaultSwapVolume]
    [] actionType = "combo" -> [state EXCEPT !.metrics.comboRuns = @ + 1]
    [] actionType = "redeem" -> [state EXCEPT !.metrics.rewardsRedeemed = @ + 1]
    [] OTHER -> state

recordAction(stored, actionType, today) ==
  Recalculated(recordActionOf(get(stored, today), actionType, today), today)

updateQuestProgressOf(state, questId, progress) ==
  IF progress >= 100 /\ questId \notin state.completedQuests
  THEN Done([state EXCEPT !.completedQuests = @ \cup {questId},
                          !.xp = @ + BonusXp(questId)], TRUE, {questId})
  ELSE Done(state, TRUE, {})

updateQuestProgress(stored, questId, progress, today) ==
  updateQuestProgressOf(get(stored, today), questId, progress)

updateMissionProgressOf(state, missionId, progress) ==
  IF progress >= 100 /\ missionId \notin state.completedMissions
  THEN Done([state EXCEPT !.completedMissions = @ \cup {missionId},
                          !.xp = @ + BonusXp(missionId)], TRUE, {missionId})
  ELSE Done(state, TRUE, {})

updateMissionProgress(stored, missionId, progress, today) ==
  updateMissionProgressOf(get(stored, today), missionId, progress)

redeemRewardAgain(state, stored, rewardId, cost, today) ==
  IF state.xp >= cost
  THEN Recalculated([state EXCEPT !.xp = @ - cost,
                                  !.redeemedRewards = @ \cup {rewardId},
                                  !.metrics.rewardsRedeemed = Max0(@ + 1)], today)
  ELSE Done(stored, FALSE, {})

redeemRewardOf(state, stored, rewardId, cost, today) ==
  IF state.xp >= cost /\ rewardId \notin state.redeemedRewards
  THEN Recalculated([state EXCEPT !.xp = @ - cost,
                                  !.redeemedRewards = @ \cup {rewardId},
                                  !.metrics.rewardsRedeemed = Max0(@ + 1)], today)
  ELSE Done(stored, FALSE, {})

redeemReward(stored, rewardId, cost, today) ==
  redeemRewardOf(get(stored, today), stored, rewardId, cost, today)

\* the inputs that are followed
TasksFollowed == {0, 1}
ActionsFollowed == {"swap", "redeem"}
RewardsFollowed == {"reward-0", "reward-2"}
QuestsFollowed == {"quest-0"}
MissionsFollowed == {"mission-5"}

\* the state stored after the given tasks were completed, in this order, on
\* one day of a first visit
RECURSIVE Played(_, _)
Played(tasks, day) ==
  IF tasks = <<>> THEN getDefaultState
  ELSE completeTask(Played(SubSeq(tasks, 1, Len(tasks) - 1), day),
                    tasks[Len(tasks)], TaskXp(tasks[Len(tasks)]), day).state

EarlierVisits == {<<>>, <<0, 1, 2, 5>>, <<1, 2, 5>>}

\* Besides the stored state and the date, the history that the properties
\* speak of: the last operation with the stored state before it, how often
\* each bonus was awarded and each reward redeemed, the completions of
\* tasks in force with their day, and the completion that an uncompleteTask
\* following it would undo.
NoOperation ==
  [op |-> "none", id |-> "", task |-> -1, success |-> FALSE, repeated |-> FALSE,
   undoes |-> FALSE, xpBefore |-> 0]

Operated(op, id, task, outcome) ==
  [stored |-> outcome.state,
   today |-> dashboard.today,
   ops |-> dashboard.ops + 1,
   last |-> [op |-> op, id |-> id, task |-> task, success |-> outcome.success,
             repeated |-> op = "completeTask" /\ <<task, dashboard.today>> \in dashboard.done,
             undoes |-> op = "uncompleteTask" /\ dashboard.last.op = "completeTask"
                          /\ dashboard.last.task = task /\ dashboard.last.success,
             xpBefore |-> IF op = "completeTask" THEN dashboard.stored.xp
                          ELSE dashboard.last.xpBefore],
   before |-> dashboard.stored,
   awards |-> [id2 \in QuestIds \cup MissionIds |->
                 dashboard.awards[id2] + IF id2 \in outcome.awarded THEN 1 ELSE 0],
   redemptions |-> [r \in RewardIds |->
                      dashboard.redemptions[r]
                        + IF op = "redeemReward" /\ r = id /\ outcome.success
                          THEN 1 ELSE 0],
   done |-> IF op = "completeTask" /\ outcome.success
            THEN dashboard.done \cup {<<task, dashboard.today>>}
            ELSE IF op = "uncompleteTask"
            THEN {c \in dashboard.done : c[1] # task}
            ELSE dashboard.done]

MayOperate == dashboard.ops < MaxDashboardOps

\* the dashboard page is loaded: renderDashboard reads the state
DashboardLoad ==
  /\ MayOperate
  /\ dashboard' = Operated("load", "", -1, Done(dashboard.stored, TRUE, {}))
  /\ UNCHANGED OutsideDashboard

\* midnight passes
NewDay ==
  /\ dashboard.today < MaxDay
  /\ dashboard' = [dashboard EXCEPT !.today = @ + 1, !.last = NoOperation]
  /\ UNCHANGED OutsideDashboard

\* handleTaskToggle with the box checked
CompleteTask ==
  /\ MayOperate
  /\ \E taskIndex \in TasksFollowed :
       dashboard' = Operated("completeTask", "", taskIndex,
                             completeTask(dashboard.stored, taskIndex, TaskXp(taskIndex),
                                          dashboard.today))
  /\ UNCHANGED OutsideDashboard

\* handleTaskToggle with the box unchecked
UncompleteTask ==
  /\ MayOperate
  /\ \E taskIndex \in TasksFollowed :
       dashboard' = Operated("uncompleteTask", "", taskIndex,
                             uncompleteTask(dashboard.stored, taskIndex,
                                            TaskXp(taskIndex), dashboard.today))
  /\ UNCHANGED OutsideDashboard

\* handleQuestAction
RecordAction ==
  /\ MayOperate
  /\ \E actionType \in ActionsFollowed :
       dashboard' = Operated("recordAction", actionType, -1,
                             recordAction(dashboard.stored, actionType, dashboard.today))
  /\ UNCHANGED OutsideDashboard

\* handleRewardRedeem
RedeemReward ==
  /\ MayOperate
  /\ \E rewardId \in RewardsFollowed :
       dashboard' = Operated("redeemReward", rewardId, -1,
                             redeemReward(dashboard.stored, rewardId,
                                          RewardCost(rewardId), dashboard.today))
  /\ UNCHANGED OutsideDashboard

UpdateQuestProgress ==
  /\ MayOperate
  /\ \E questId \in QuestsFollowed, progress \in {50, 100} :
       dashboard' = Operated("updateQuestProgress", questId, -1,
                             updateQuestProgress(dashboard.stored, questId, progress,
                                                 dashboard.today))
  /\ UNCHANGED OutsideDashboard

UpdateMissionProgress ==
  /\ MayOperate
  /\ \E missionId \in MissionsFollowed, progress \in {50, 100} :
       dashboard' = Operated("updateMissionProgress", missionId, -1,
                             updateMissionProgress(dashboard.stored, missionId, progress,
                                                   dashboard.today))
  /\ UNCHANGED OutsideDashboard

\* the state an earlier visit left in localStorage, if there was one
InitDashboard ==
  /\ QuoteCallsAtRest
  /\ WalletDisconnected
  /\ SwapPageAtRest
  /\ DebounceAtRest
  /\ TickerAtRest
  /\ WalletPageAtRest
  /\ ThemeAtRest
  /\ SwapAtRest
  /\ WaitAtRest
  /\ QuoteRequestsAtRest
  /\ \E tasks \in EarlierVisits, day \in {FirstDay - 2, FirstDay - 1} :
       dashboard =
         [stored |-> Played(tasks, day),
          today |-> FirstDay,
          ops |-> 0,
          last |-> NoOperation,
          before |-> Played(tasks, day),
          awards |-> [id \in QuestIds \cup MissionIds |->
                        IF id \in Played(tasks, day).completedQuests
                                    \cup Played(tasks, day).completedMissions
                        THEN 1 ELSE 0],
          redemptions |-> [r \in RewardIds |-> 0],
          done |-> {<<tasks[i], day>> : i \in DOMAIN tasks}]

NextDashboard ==
  \/ DashboardLoad
  \/ NewDay
  \/ CompleteTask
  \/ UncompleteTask
  \/ RecordAction
  \/ RedeemReward
  \/ UpdateQuestProgress
  \/ UpdateMissionProgress

SpecDashboard == InitDashboard /\ [][NextDashboard]_vars

----------------------------------------------------------------------------
(* Properties of the swap quote calculations *)

Product(r) == r.reserveIn * r.reserveOut

\* the last call was a forward quote (a direct call or the quote of a trade)
ForwardQuote == call.fn \in {"getAmountOut", "trade"}

CallArgsNonNegative == call.amount >= 0 /\ call.reserveIn >= 0 /\ call.reserveOut >= 0
CallHasNegative == call.amount < 0 \/ call.reserveIn < 0 \/ call.reserveOut < 0

\* C1: from a pool with both reserves positive, a trade that adds amountIn
\* to the input reserve and removes getAmountOut(amountIn, reserveIn,
\* reserveOut) from the output reserve never decreases reserveIn * reserveOut.
C1_ProductNeverDecreases ==
  [][(reserves.reserveIn > 0 /\ reserves.reserveOut > 0)
       => /\ Product(reserves') >= Product(reserves)
          /\ (reserves' # reserves =>
                /\ call'.fn = "trade"
                /\ reserves'.reserveIn = reserves.reserveIn + call'.amount
                /\ reserves'.reserveOut = reserves.reserveOut - result'.value)]_vars

\* a trade with a positive output was applied and the product grew
C1_Witness ==
  /\ call.fn = "trade"
  /\ call.amount > 0
  /\ result.value > 0
  /\ reserves.reserveOut = call.reserveOut - result.value
  /\ Product(reserves) > call.reserveIn * call.reserveOut

\* C2: for amountIn >= 0 and both reserves positive, getAmountOut is >= 0
\* and strictly below reserveOut, so a trade leaves the output reserve
\* positive.
C2_OutputBelowReserve ==
  /\ (ForwardQuote /\ call.amount >= 0 /\ call.reserveIn > 0 /\ call.reserveOut > 0)
       => /\ result.threw = "none"
          /\ result.value >= 0
          /\ result.value < call.reserveOut
  /\ call.fn = "trade" => reserves.reserveOut > 0

\* an amount ten times the input reserve or more was quoted, and all but one unit of
\* the output reserve was the answer
C2_Witness ==
  /\ call.fn = "getAmountOut"
  /\ call.reserveIn > 0
  /\ call.amount >= 10 * call.reserveIn
  /\ call.reserveOut > 1
  /\ result.value = call.reserveOut - 1

\* the last call recovered the input of the forward quote before it
RoundTrip ==
  /\ call.fn = "getAmountIn"
  /\ prior.call.fn = "getAmountOut"
  /\ prior.call.amount >= 0
  /\ prior.call.reserveIn > 0
  /\ prior.call.reserveOut > 0

\* x is the least input that getAmountOut quotes its output for
LeastInputOfItsOutput(c, quoted) ==
  /\ c.amount >= 1
  /\ Number(getAmountOut(BigInt(c.amount - 1), BigInt(c.reserveIn),
                         BigInt(c.reserveOut)).value) < quoted

\* C3 as stated: getAmountIn(getAmountOut(x, rIn, rOut), rIn, rOut) >= x for
\* every x >= 0 and rIn, rOut > 0.
C3_RoundTripNeverUnderEstimates ==
  RoundTrip => result.threw = "none" /\ result.value >= prior.call.amount

\* C3 as amended: the recovered input is at most x + 1, and it is at least x
\* when x is the least input that yields its quoted output.
C3_RoundTripBound ==
  RoundTrip =>
    /\ result.threw = "none"
    /\ result.value <= prior.call.amount + 1
    /\ LeastInputOfItsOutput(prior.call, prior.result.value)
         => result.value >= prior.call.amount

\* a least input was recovered exactly, from a positive quoted output
C3_Witness ==
  /\ RoundTrip
  /\ prior.result.value > 0
  /\ LeastInputOfItsOutput(prior.call, prior.result.value)
  /\ result.value >= prior.call.amount

\* C4: for 0 < y < reserveOut and reserveIn > 0,
\* getAmountOut(getAmountIn(y, reserveIn, reserveOut), reserveIn, reserveOut) >= y.
C4_QuotedInputBuysOutput ==
  (/\ call.fn = "getAmountOut"
   /\ prior.call.fn = "getAmountIn"
   /\ 0 < prior.call.amount
   /\ prior.call.amount < prior.call.reserveOut
   /\ prior.call.reserveIn > 0)
    => /\ prior.result.threw = "none"
       /\ call.amount = prior.result.value
       /\ result.threw = "none"
       /\ result.value >= prior.call.amount

\* the quoted input bought exactly the requested output, nothing to spare
C4_Witness ==
  /\ call.fn = "getAmountOut"
  /\ prior.call.fn = "getAmountIn"
  /\ 1 < prior.call.amount
  /\ prior.call.amount < prior.call.reserveOut
  /\ prior.call.reserveIn > 1
  /\ result.value = prior.call.amount

\* C5: getAmountOut returns 0 and throws nothing when amountIn = 0 or
\* reserveIn = 0 or reserveOut = 0, the other arguments being non-negative.
C5_ZeroOnDegenerateInput ==
  (/\ call.fn = "getAmountOut"
   /\ CallArgsNonNegative
   /\ (call.amount = 0 \/ call.reserveIn = 0 \/ call.reserveOut = 0))
    => result = [threw |-> "none", value |-> 0]

\* a positive amount was quoted against an empty input reserve
C5_Witness ==
  /\ call.fn = "getAmountOut"
  /\ call.amount > 0
  /\ call.reserveIn = 0
  /\ call.reserveOut > 0
  /\ result = [threw |-> "none", value |-> 0]

\* C6: getAmountIn returns 0 whenever amountOut >= reserveOut; for
\* non-negative arguments it returns 0 only when amountOut = 0, a reserve is
\* 0 or amountOut >= reserveOut, and at least 1 otherwise.
C6_SentinelOnlyWhenUnsatisfiable ==
  call.fn = "getAmountIn" =>
    /\ result.threw = "none"
    /\ call.amount >= call.reserveOut => result.value = 0
    /\ CallArgsNonNegative =>
         /\ result.value >= 0
         /\ result.value = 0 <=>
              \/ call.amount = 0
              \/ call.reserveIn = 0
              \/ call.reserveOut = 0
              \/ call.amount >= call.reserveOut

\* the whole output reserve of a live pool was requested and 0 came back
C6_Witness ==
  /\ call.fn = "getAmountIn"
  /\ call.reserveIn > 0
  /\ call.reserveOut > 0
  /\ call.amount = call.reserveOut
  /\ result = [threw |-> "none", value |-> 0]

\* C7: for amountIn, reserveIn, reserveOut > 0, getAmountOut is the floor of
\* (amountIn * 997 * reserveOut) / (reserveIn * 1000 + amountIn * 997).
C7_OutputIsFloorOfFormula ==
  (ForwardQuote /\ call.amount > 0 /\ call.reserveIn > 0 /\ call.reserveOut > 0)
    => LET num == call.amount * 997 * call.reserveOut
           den == call.reserveIn * 1000 + call.amount * 997
       IN /\ result.threw = "none"
          /\ result.value * den <= num
          /\ num < (result.value + 1) * den

\* a quote whose division left a remainder, which was discarded
C7_Witness ==
  /\ call.fn = "getAmountOut"
  /\ call.amount > 0 /\ call.reserveIn > 0 /\ call.reserveOut > 0
  /\ result.value > 0
  /\ result.value * (call.reserveIn * 1000 + call.amount * 997)
       < call.amount * 997 * call.reserveOut

\* the worked example: amountIn = 1,000 against reserves 1,000,000 / 2,000,000
ScenarioCall ==
  call = [fn |-> "getAmountOut", amount |-> 1000,
          reserveIn |-> 1000000, reserveOut |-> 2000000]

\* C8 as stated: the forward quote of the worked example is 1991.
C8_ScenarioQuoteIs1991 ==
  ScenarioCall => result = [threw |-> "none", value |-> 1991]

\* C8 as amended: the forward quote of the worked example is 1992, the floor
\* of 1,994,000,000,000 / 1,000,997,000.
C8_ScenarioQuoteIs1992 ==
  ScenarioCall =>
    /\ result = [threw |-> "none", value |-> 1992]
    /\ LET numerator == BigIntMul(BigInt(1994000), BigInt(1000000))
           denominator == BigInt(1000997000)
       IN /\ numerator =
               BigIntMul(BigIntMul(BigInt(call.amount), BigInt(997)),
                         BigInt(call.reserveOut))
          /\ denominator =
               BigIntAdd(BigIntMul(BigInt(call.reserveIn), BigInt(1000)),
                         BigIntMul(BigInt(call.amount), BigInt(997)))
          /\ BigIntLe(BigIntMul(BigInt(result.value), denominator), numerator)
          /\ ~BigIntLe(BigIntMul(BigInt(result.value + 1), denominator), numerator)

C8_Witness == ScenarioCall /\ result.value = 1992

\* C9: for 0 < amountOut < reserveOut and reserveIn > 0, getAmountIn is
\* floor(reserveIn * amountOut * 1000 / ((reserveOut - amountOut) * 997)) + 1,
\* also when the division is exact.
C9_InputIsFloorPlusOne ==
  (/\ call.fn = "getAmountIn"
   /\ 0 < call.amount
   /\ call.amount < call.reserveOut
   /\ call.reserveIn > 0)
    => LET num == call.reserveIn * call.amount * 1000
           den == (call.reserveOut - call.amount) * 997
           floor == result.value - 1
       IN /\ result.threw = "none"
          /\ floor * den <= num
          /\ num < (floor + 1) * den

\* an exact division got its + 1 all the same
C9_Witness ==
  /\ call.fn = "getAmountIn"
  /\ 0 < call.amount
  /\ call.amount < call.reserveOut
  /\ call.reserveIn > 0
  /\ (result.value - 1) * (call.reserveOut - call.amount) * 997
       = call.reserveIn * call.amount * 1000

C16_NeverFailsOnNonNegativeInput ==
  (call.fn \in {"getAmountOut", "getAmountIn"} /\ CallArgsNonNegative)
    => /\ result.threw = "none"
       /\ result.value >= 0
       /\ (call.fn = "getAmountOut" /\ result.value # 0)
            => call.reserveIn * 1000 + call.amount * 997 > 0
       /\ (call.fn = "getAmountIn" /\ result.value # 0)
            => (call.reserveOut - call.amount) * 997 > 0

\* getAmountIn divided by the smallest denominator there is, one unit of the
\* output reserve left, and returned a value
C16_Witness ==
  /\ call.fn = "getAmountIn"
  /\ call.reserveIn > 0
  /\ call.amount > 0
  /\ call.reserveOut - call.amount = 1
  /\ result.threw = "none"
  /\ result.value > 0

----------------------------------------------------------------------------
(* Properties of the swap page: slippage, minimum amounts, quotes *)

\* a deploy was built, or refused, by executeSwap or addLiquidity
DeployAttempted == deploy # NoDeploy

\* the slippage tolerance, in thousandths of a percent, lies in [0, 100) percent
SlippageInRange(slippage) == slippage >= 0 /\ slippage < 100 * 1000

\* floor(amount * (1 - slippage / 100)) for a slippage in thousandths of a
\* percent, in exact arithmetic
ExactMinimum(amount, slippage) ==
  BigIntDivide(BigIntMul(amount, BigInt(100 * 1000 - slippage)), BigInt(100 * 1000)).value

\* a quote was asked from live reserves: both tokens have a contract, the SDK
\* is available and the amount is positive
LiveReservesConsulted ==
  /\ request # NoRequest
  /\ request.sdkAvailable
  /\ request.tokenIn \in Tokens /\ request.tokenOut \in Tokens
  /\ TokenHash(request.tokenIn) # 0 /\ TokenHash(request.tokenOut) # 0
  /\ request.amountIn.n > 0

\* C11: a slippage tolerance outside [0, 100) is rejected by executeSwap and
\* addLiquidity: the call throws and no minimum amount is computed or submitted
\* from it.
C11_OutOfRangeSlippageRejected ==
  (DeployAttempted /\ ~SlippageInRange(deploy.slippagePercent))
    => deploy.status = "threw" /\ deploy.minimums = <<>>

\* a swap submitted with a tolerance of 150 percent and a negative minimum
C11_NegativeMinimumSubmitted ==
  /\ deploy.entryPoint = "swap_exact_tokens_for_tokens"
  /\ deploy.status = "submitted"
  /\ deploy.slippagePercent = 150 * 1000
  /\ deploy.minimums[1].neg

\* C12: the minimum received of the quote shown is
\* floor(amountOut * (1 - slippagePct / 100)) for the slippagePct of the caller,
\* the one the order summary names.
C12_MinimumUsesCallersSlippage ==
  (display.shown = "quote" /\ ~currentSwapQuote.demo /\ SlippageInRange(display.slippagePct))
    => currentSwapQuote.minReceivedRaw
         = ExactMinimum(currentSwapQuote.amountOutRaw, display.slippagePct)

\* a quote shown "with 1% slippage" whose minimum was taken at the default 0.5%
C12_DefaultSlippageShownAsCallers ==
  /\ display.shown = "quote" /\ ~currentSwapQuote.demo
  /\ display.slippagePct = 1000
  /\ currentSwapQuote.amountOutRaw.mag # <<>>
  /\ currentSwapQuote.minReceivedRaw = ExactMinimum(currentSwapQuote.amountOutRaw, 500)
  /\ currentSwapQuote.minReceivedRaw # ExactMinimum(currentSwapQuote.amountOutRaw, 1000)

\* the quote held is a valid one computed from two positive reserves
QuotedFromRealReserves ==
  /\ LiveReservesConsulted
  /\ currentSwapQuote.valid /\ ~currentSwapQuote.demo
  /\ currentSwapQuote.reserveA.mag # <<>> /\ currentSwapQuote.reserveB.mag # <<>>
  /\ currentSwapQuote.amountInRaw.mag # <<>>

\* 10000 * (amountIn * reserveB - amountOut * reserveA) and amountIn * reserveB:
\* the price impact (spotPrice - executionPrice) / spotPrice, in hundredths of a
\* percent, as an exact fraction
ImpactNumerator(quote) ==
  BigIntMul(BigInt(10000),
            BigIntSub(BigIntMul(quote.amountInRaw, quote.reserveB),
                      BigIntMul(quote.amountOutRaw, quote.reserveA)))
ImpactDenominator(quote) == BigIntMul(quote.amountInRaw, quote.reserveB)

\* C13: for a quote from real reserves the price impact reported is
\* (spotPrice - executionPrice) / spotPrice, as a percentage with two decimals
\* (within one hundredth of a percent of the exact value), and never negative.
C13_PriceImpactIsRelativeSpread ==
  QuotedFromRealReserves
    => /\ currentSwapQuote.priceImpact.text = "decimal"
       /\ currentSwapQuote.priceImpact.units >= 0
       /\ BigIntLe(BigIntMul(BigInt(currentSwapQuote.priceImpact.units - 1),
                             ImpactDenominator(currentSwapQuote)),
                   ImpactNumerator(currentSwapQuote))
       /\ BigIntLe(ImpactNumerator(currentSwapQuote),
                   BigIntMul(BigInt(currentSwapQuote.priceImpact.units + 1),
                             ImpactDenominator(currentSwapQuote)))

\* a quote from unequal reserves with an impact strictly between 0 and 100 percent
C13_Witness ==
  /\ QuotedFromRealReserves
  /\ currentSwapQuote.reserveA # currentSwapQuote.reserveB
  /\ currentSwapQuote.priceImpact.units > 0
  /\ currentSwapQuote.priceImpact.units < 9000

\* a quote was asked and no live reserves were to be had: a token has no
\* contract hash, or the pair is not found
NoLiveReserves ==
  /\ request # NoRequest
  /\ request.tokenIn \in Tokens /\ request.tokenOut \in Tokens
  /\ request.amountIn.n > 0
  /\ \/ TokenHash(request.tokenIn) = 0 \/ TokenHash(request.tokenOut) = 0
     \/ (request.sdkAvailable /\ request.chain.pair # "found")

\* C14: without live reserves the quote is the demo quote of the static rate
\* table: amountOut = amountIn * tableRate, marked as demo, price impact 0; and
\* that is what the page shows.
C14_DemoQuoteWithoutReserves ==
  NoLiveReserves
    => /\ currentSwapQuote.valid /\ currentSwapQuote.demo
       /\ currentSwapQuote.priceImpact = NoImpact
       /\ currentSwapQuote.amountOut
            = ToFixed(DoubleMul(parseFloat(request.amountIn),
                                DemoRate(request.tokenIn, request.tokenOut)), 6).units
       /\ display.demoNote /\ display.priceImpact = NoImpact
       /\ display.toAmount = currentSwapQuote.amountOut

\* 100 ECTO for USDC, the pair not found: no quote, and the page shows 100 USDC
\* from its own table with an impact of 10 percent and no demo mark
C14_PairNotFoundShownUnmarked ==
  /\ NoLiveReserves
  /\ request.tokenIn = "ECTO" /\ request.tokenOut = "USDC"
  /\ request.amountIn = AmountText(100, 0)
  /\ request.chain.pair = "none"
  /\ ~currentSwapQuote.valid /\ currentSwapQuote.error = "Pair does not exist"
  /\ display.shown = "fallback" /\ ~display.demoNote
  /\ display.toAmount = 100 * 1000 * 1000
  /\ display.priceImpact.units = 1000

\* C15: getSwapQuote returns no valid quote when a reserve obtained for the
\* pair is 0, a failed reserve query read as 0 included.
C15_ZeroReserveQuoteRejected ==
  (LiveReservesConsulted /\ currentSwapQuote.valid /\ ~currentSwapQuote.demo)
    => /\ currentSwapQuote.reserveA.mag # <<>>
       /\ currentSwapQuote.reserveB.mag # <<>>

\* a valid quote of 0 from a pair whose reserve query failed
C15_ValidQuoteFromFailedRead ==
  /\ LiveReservesConsulted
  /\ request.chain.pair = "found"
  /\ request.chain.reserve1 = <<>>
  /\ currentSwapQuote.valid /\ ~currentSwapQuote.demo
  /\ currentSwapQuote.amountOutRaw = BigInt(0)

----------------------------------------------------------------------------
(* Properties of debounce *)

\* call i is the last of its burst: no call follows it within the wait
LastOfBurst(i) ==
  i = Len(debounced) \/ debounced[i + 1].at - debounced[i].at >= DEBOUNCE_DELAY_CALC

\* the invocations made for call i: the wait after it, with its arguments
InvocationsFor(i) ==
  {k \in DOMAIN invocations :
     invocations[k] = [at |-> debounced[i].at + DEBOUNCE_DELAY_CALC,
                       args |-> debounced[i].args]}

\* C17: a burst of calls, each less than the wait after the one before, causes
\* no invocation of the wrapped function during the burst and exactly one after
\* it, the wait after the last call and with the last call's arguments.
C17_OneInvocationAfterBurst ==
  /\ \A k \in DOMAIN invocations :
       /\ \E i \in DOMAIN debounced : LastOfBurst(i) /\ k \in InvocationsFor(i)
       /\ \A i \in DOMAIN debounced :
            (i < Len(debounced) /\ ~LastOfBurst(i))
              => ~(debounced[i].at < invocations[k].at
                     /\ invocations[k].at <= debounced[i + 1].at)
  /\ \A i \in DOMAIN debounced :
       LastOfBurst(i)
         => /\ Cardinality(InvocationsFor(i)) <= 1
            /\ now > debounced[i].at + DEBOUNCE_DELAY_CALC
                 => Cardinality(InvocationsFor(i)) = 1

\* three calls in one burst, the last with another argument, and the one
\* invocation that follows them
C17_Witness ==
  /\ Len(debounced) = 3
  /\ ~LastOfBurst(1) /\ ~LastOfBurst(2)
  /\ debounced[1].at < debounced[2].at /\ debounced[2].at < debounced[3].at
  /\ debounced[2].args # debounced[3].args
  /\ now > debounced[3].at + DEBOUNCE_DELAY_CALC
  /\ invocations = <<[at |-> debounced[3].at + DEBOUNCE_DELAY_CALC,
                      args |-> debounced[3].args]>>

----------------------------------------------------------------------------
(* Properties of the price ticker *)

\* the interval the claim gives for a number of failed fetches in a row
IntervalAfter(failures) ==
  IF failures < 3 THEN 60 * 1000
  ELSE IF 60 * 1000 * 2 ^ (failures - 3) < 300 * 1000
  THEN 60 * 1000 * 2 ^ (failures - 3) ELSE 300 * 1000

\* C18: the polling interval of the price ticker lies between 60 s and 300 s:
\* 60 s while fewer than 3 fetches in a row have failed,
\* min(60 s * 2^(failures - 3), 300 s) from the third on, and 60 s again, the
\* failure count back at 0, after the first fetch that succeeds.
C18_PollingIntervalBacksOff ==
  /\ currentInterval >= 60 * 1000 /\ currentInterval <= 300 * 1000
  /\ failureCount = ticker.streak
  /\ currentInterval = IntervalAfter(ticker.streak)
  /\ intervalId.period = currentInterval
  /\ ticker.last \in {"ok", "recovered"}
       => failureCount = 0 /\ currentInterval = 60 * 1000

\* six failures in a row after a price was shown: the interval is at its limit
C18_Witness ==
  /\ ticker.streak = 6
  /\ ticker.updated
  /\ currentInterval = 300 * 1000
  /\ intervalId.period = 300 * 1000

----------------------------------------------------------------------------
(* Properties of the wallet connection *)

\* C19: a connection attempt ends, at the latest when the connection timeout
\* fires, with the connect button enabled and showing the connected account or
\* 'Connect Wallet', whatever the provider answers.
C19_AttemptEndsWithButtonEnabled ==
  (attempt.phase = "finished" \/ attempt.timer = "fired")
    => /\ ~connectBtn.disabled
       /\ connectBtn.textContent \in {ConnectedText, ConnectText}

\* the provider answered with an empty result, the timeout has fired, and the
\* button still reads 'Connecting...', disabled
C19_ButtonStaysConnecting ==
  /\ attempt.phase = "finished"
  /\ attempt.result = "empty"
  /\ attempt.timer = "fired"
  /\ connectBtn.disabled
  /\ connectBtn.textContent = ConnectingText

\* C20: once disconnectWalletHandler has run, and until a wallet is connected
\* again, no connection state remains: the two globals are unset and both
\* localStorage keys are gone, also after later page loads.
C20_DisconnectLeavesNoConnection ==
  walletLog.sinceDisconnect
    => /\ connectedWallet = "" /\ connectedAccount = ""
       /\ localStorage = EmptyStorage
       /\ ~connectBtn.connected

\* a page load after a disconnect
C20_Witness ==
  /\ walletLog.sinceDisconnect
  /\ walletLog.last = "load"
  /\ connectedWallet = "" /\ connectedAccount = ""
  /\ connectBtn = ButtonAsServed

\* C28: a provider response that arrives after the 30 s CONNECTION_TIMEOUT
\* never marks the wallet connected: the two globals stay unset, no
\* connection is stored and the button stays 'Connect Wallet', until a new
\* attempt is made.
C28_LateAnswerDoesNotConnect ==
  (attempt.result = "CONNECTION_TIMEOUT" /\ attempt.late # "none")
    => /\ connectedWallet = "" /\ connectedAccount = ""
       /\ localStorage.account = ""
       /\ hydrateWalletConnection(localStorage).connectedWallet = ""
       /\ connectBtn = ButtonReset

\* the provider handed over an account after the attempt had timed out
C28_Witness ==
  /\ attempt.result = "CONNECTION_TIMEOUT"
  /\ attempt.late = "account"
  /\ localStorage = EmptyStorage
  /\ connectBtn.textContent = ConnectText

----------------------------------------------------------------------------
(* Properties of the colour theme *)

LastThemeEvent == theme.log[Len(theme.log)]

\* C21: on page load hydrateTheme applies the theme saved in localStorage if
\* there is one, otherwise light when the system prefers a light colour
\* scheme, otherwise dark.
C21_HydrateThemeFollowsPriority ==
  (theme.log # <<>> /\ LastThemeEvent.op = "hydrateTheme")
    => /\ theme.dataTheme = LastThemeEvent.applied
       /\ LastThemeEvent.applied =
            hydrateThemeWithPreference(LastThemeEvent.found,
                                       LastThemeEvent.prefersLight).dataTheme

\* a page loaded with nothing stored on a system that prefers light is dark
C21_SystemPreferenceIgnored ==
  /\ theme.log # <<>>
  /\ LastThemeEvent.op = "hydrateTheme"
  /\ LastThemeEvent.found = ""
  /\ LastThemeEvent.prefersLight
  /\ theme.dataTheme = "dark"

----------------------------------------------------------------------------
(* Properties of demoSwap and executeSwap *)

SwapPut(i) == swap.puts[i].entryPoint = "swap_exact_tokens_for_tokens"

\* C22: no deploy is submitted for an unusable swap: when the wallet is not
\* connected, the quote is not valid or the quote is a demo quote,
\* executeSwap throws before putDeploy is called for an approval or a swap,
\* and demoSwap does not call executeSwap at all.
C22_NoDeployForUnusableSwap ==
  (swap.runs > 0 /\ (~swap.connected \/ ~swap.quote.valid \/ swap.quote.demo))
    => /\ swap.puts = <<>>
       /\ swap.pc = "done"
       /\ IF swap.caller = "demoSwap"
          THEN ~swap.called /\ swap.outcome = "alert"
          ELSE swap.called /\ swap.outcome = "threw"

\* executeSwap was called with a demo quote by a connected user and threw
C22_Witness ==
  /\ swap.caller = "caller"
  /\ swap.connected
  /\ swap.quote.valid
  /\ swap.quote.demo
  /\ swap.outcome = "threw"
  /\ swap.puts = <<>>

\* C23: the swap deploy is submitted only once the allowance covers
\* amountInRaw: if checkAllowance reports too little, an approve deploy is
\* submitted and awaited first and the swap deploy follows only an approval
\* confirmed successful; if the approval fails or times out, executeSwap
\* ends with an error and no swap deploy is submitted.
C23_SwapDeployOnlyWithAllowance ==
  /\ (\E i \in DOMAIN swap.puts : SwapPut(i))
       => \/ swap.hasAllowance = "yes"
          \/ /\ swap.hasAllowance = "no"
             /\ swap.approval = "success"
             /\ swap.puts[1] = Put("approve", TRUE)
             /\ SwapPut(2)
  /\ swap.hasAllowance = "yes" => \A i \in DOMAIN swap.puts : SwapPut(i)
  /\ swap.approval \in {"Transaction failed", "Transaction timed out"}
       => /\ swap.pc = "done"
          /\ swap.outcome = "threw"
          /\ swap.error = "Approval failed"
          /\ swap.puts = <<Put("approve", TRUE)>>

\* a swap deploy submitted after an approval that was confirmed
C23_Witness ==
  /\ swap.hasAllowance = "no"
  /\ swap.approval = "success"
  /\ swap.outcome = "returned"
  /\ swap.puts = <<Put("approve", TRUE), Put("swap_exact_tokens_for_tokens", TRUE)>>

\* an approval that timed out ended the run
C23_ApprovalTimedOut ==
  /\ swap.approval = "Transaction timed out"
  /\ swap.outcome = "threw"

----------------------------------------------------------------------------
(* Properties of waitForDeploy *)

WaitResultIsRight ==
  /\ deployWait.pc # "threw"
  /\ deployWait.last.kind \in {"Success", "Failure"} => deployWait.pc = "returned"
  /\ deployWait.last.kind \in {"rejected", "no execution result", "no result field"}
       => deployWait.pc \in {"sleeping", "polling"}
            \/ /\ deployWait.pc = "returned"
               /\ deployWait.result = Failure("Transaction timed out")
  /\ deployWait.pc = "returned"
       => CASE deployWait.last.kind = "Success" -> deployWait.result = Success
            [] deployWait.last.kind = "Failure" ->
                 /\ ~deployWait.result.success
                 /\ deployWait.result.error =
                      IF deployWait.last.error_message # ""
                      THEN deployWait.last.error_message ELSE "Transaction failed"
            [] OTHER ->
                 /\ deployWait.result = Failure("Transaction timed out")
                 /\ deployWait.elapsed >= deployWait.timeoutMs

----------------------------------------------------------------------------
(* Properties of overlapping quote requests *)

\* C27: when quote requests overlap, then once all of them have completed
\* window.currentSwapQuote and the output shown are those of the most
\* recent input.
C27_LatestInputWins ==
  (quoteRequests.issued > 0 /\ quoteRequests.pending = {})
    => /\ currentSwapQuote = PageQuote(quoteRequests.input)
       /\ display.toAmount = PageQuote(quoteRequests.input).amountOut

\* all requests have completed and the quote kept is not the one of the
\* amount in the input field
C27_StaleQuoteKept ==
  /\ quoteRequests.issued = 2
  /\ quoteRequests.pending = {}
  /\ currentSwapQuote.valid
  /\ currentSwapQuote # PageQuote(quoteRequests.input)
  /\ display.toAmount # PageQuote(quoteRequests.input).amountOut

----------------------------------------------------------------------------
(* Properties of the dashboard *)

\* C25: redeemReward succeeds only when the stored XP is at least the cost
\* and the reward has not been redeemed before: over any sequence of
\* operations each reward is redeemed at most once, and a rejected
\* redemption leaves the stored state as it was.
C25_RewardRedeemedOnce ==
  /\ \A r \in RewardIds : dashboard.redemptions[r] <= 1
  /\ dashboard.last.op = "redeemReward"
       => IF dashboard.last.success
          THEN /\ dashboard.before.xp >= RewardCost(dashboard.last.id)
               /\ dashboard.last.id \notin dashboard.before.redeemedRewards
               /\ dashboard.last.id \in dashboard.stored.redeemedRewards
          ELSE dashboard.stored = dashboard.before

\* a reward already redeemed is asked for again, with XP enough to pay it
C25_Witness ==
  /\ dashboard.last.op = "redeemReward"
  /\ ~dashboard.last.success
  /\ dashboard.redemptions[dashboard.last.id] = 1
  /\ dashboard.stored.xp >= RewardCost(dashboard.last.id)

\* the completions in force were all made before today
TasksAreOfEarlierDays ==
  /\ dashboard.stored.completedTasks # {}
  /\ \A c \in dashboard.done : c[2] < dashboard.today

\* C26: the daily tasks reset on a new calendar day: when the state is loaded
\* on a later day than the one on which tasks were completed, completedTasks
\* is empty, and the streak is kept if the last check-in was the day before
\* and reset to 0 if it was earlier.
C26_TasksResetOnNewDay ==
  (dashboard.last.op = "load" /\ TasksAreOfEarlierDays)
    => /\ get(dashboard.stored, dashboard.today).completedTasks = {}
       /\ dashboard.stored.lastCheckIn = dashboard.today - 1
            => get(dashboard.stored, dashboard.today).streak = dashboard.stored.streak
       /\ (dashboard.stored.lastCheckIn > 0
             /\ dashboard.stored.lastCheckIn < dashboard.today - 1)
            => get(dashboard.stored, dashboard.today).streak = 0

\* tasks completed on an earlier day without a check-in are still completed
\* when the dashboard is loaded
C26_TasksOfYesterdayKept ==
  /\ dashboard.last.op = "load"
  /\ TasksAreOfEarlierDays
  /\ dashboard.stored.lastCheckIn = 0
  /\ get(dashboard.stored, dashboard.today).completedTasks = {1, 2, 5}

\* C29: over any sequence of dashboard operations the XP bonus of each weekly
\* quest and each mission is awarded at most once; in particular, completing
\* a task and then un-completing it restores the XP total.
C29_BonusAwardedOnce ==
  /\ \A id \in QuestIds \cup MissionIds : dashboard.awards[id] <= 1
  /\ (dashboard.last.op = "uncompleteTask" /\ dashboard.last.undoes)
       => dashboard.stored.xp = dashboard.last.xpBefore

\* the bonus of the first-trade mission was added to the XP twice
C29_BonusAwardedTwice ==
  /\ dashboard.awards["mission-0"] = 2
  /\ dashboard.last.op = "completeTask"

\* a swap task completed and un-completed left the mission bonus in the XP
C29_XpNotRestored ==
  /\ dashboard.last.op = "uncompleteTask"
  /\ dashboard.last.undoes
  /\ dashboard.stored.xp = dashboard.last.xpBefore + BonusXp("mission-0")

\* C30: within one calendar day each daily task awards its XP at most once:
\* whatever the date of the last check-in, completeTask for a task already
\* completed that day, with no uncompleteTask in between, changes neither
\* XP, streak nor metrics.
C30_TaskAwardedOncePerDay ==
  (dashboard.last.op = "completeTask" /\ dashboard.last.repeated)
    => /\ dashboard.stored.xp = dashboard.before.xp
       /\ dashboard.stored.streak = dashboard.before.streak
       /\ dashboard.stored.metrics = dashboard.before.metrics

\* the swap task, completed a second time on the day after the last
\* check-in, added its XP again
C30_TaskAwardedAgain ==
  /\ dashboard.last.op = "completeTask"
  /\ dashboard.last.repeated
  /\ dashboard.last.task = 1
  /\ dashboard.before.lastCheckIn = dashboard.today - 1
  /\ dashboard.stored.xp >= dashboard.before.xp + TaskXp(1)
  /\ dashboard.stored.metrics.swaps = dashboard.before.metrics.swaps + 1

====
